---- MODULE Spec2Model ----
(***************************************************************************)
(* ArtCheck preview/metadata pipeline (src/app_with_embroidery.py).        *)
(*                                                                         *)
(* File names and paths are sequences of one-character strings, so that    *)
(* Path(...).suffix, str.lower() and str.endswith() are computed and not   *)
(* assumed.  External tools (inkscape, convert, gs, pyembroidery) are the  *)
(* environment: every invocation is appended to `log` with the outcome the *)
(* environment chose for it.                                               *)
(***************************************************************************)
EXTENDS Integers, Sequences, FiniteSets, TLC

VARIABLES
    pc,             \* position of the request in the upload handler / generate_preview
    fname,          \* uploaded_file.name
    path,           \* tmp_path handed to generate_preview
    env,            \* has_inkscape, has_imagemagick, embroidery.available, gs on PATH
    log,            \* calls made to collaborators, in order
    files,          \* temporary files of the request: absent / empty / nonempty
    success,        \* local `success` of generate_preview
    vector_colors,  \* local `vector_colors`: <<>> is None, <<cs>> a ColorSet
    emb,            \* (success, result) of EmbroideryConverter.convert_to_png
    img,            \* [w, h] of the image being processed, <<>> before Image.open
    result,         \* return value of generate_preview: <<>> is None, <<dict>> a dict
    raised,         \* where post-processing raised ("" when it did not)
    arg,            \* argument of the function under test (function harnesses)
    ret             \* <<>> before the call, <<value>> after it

pvars == <<pc, fname, path, env, log, files, success, vector_colors, emb, img,
           result, raised>>
hvars == <<arg, ret>>
vars == <<pc, fname, path, env, log, files, success, vector_colors, emb, img,
          result, raised, arg, ret>>

----------------------------------------------------------------------------
(* Characters and strings *)

UpperLetters == <<"A","B","C","D","E","F","G","H","I","J","K","L","M",
                  "N","O","P","Q","R","S","T","U","V","W","X","Y","Z">>
LowerLetters == <<"a","b","c","d","e","f","g","h","i","j","k","l","m",
                  "n","o","p","q","r","s","t","u","v","w","x","y","z">>

\* str.lower() on one character
LowerChar(c) ==
    IF \E i \in 1..Len(UpperLetters) : UpperLetters[i] = c
    THEN LowerLetters[CHOOSE i \in 1..Len(UpperLetters) : UpperLetters[i] = c]
    ELSE c

\* str.upper() on one character
UpperChar(c) ==
    IF \E i \in 1..Len(LowerLetters) : LowerLetters[i] = c
    THEN UpperLetters[CHOOSE i \in 1..Len(LowerLetters) : LowerLetters[i] = c]
    ELSE c

\* a lower() that forgets to fold case
LowerIdentity(s) == s

\* str.lower()
Lower(s) == [i \in 1..Len(s) |-> LowerChar(s[i])]

\* an upper() that forgets to fold case
UpperIdentity(s) == s

\* str.upper()
Upper(s) == [i \in 1..Len(s) |-> UpperChar(s[i])]

\* str.endswith(t)
EndsWith(s, t) ==
    /\ Len(t) <= Len(s)
    /\ SubSeq(s, Len(s) - Len(t) + 1, Len(s)) = t

\* position of the last occurrence of c in s, 0 when there is none (rfind + 1)
LastIndexOf(s, c) ==
    IF \E i \in 1..Len(s) : s[i] = c
    THEN CHOOSE i \in 1..Len(s) : s[i] = c /\ \A j \in (i+1)..Len(s) : s[j] # c
    ELSE 0

\* PurePath.name: the last component, "" when the path has none.  The path
\* is split at every "/" and its empty and "." components are dropped, so a
\* trailing "/" and a trailing "." component are set aside before the text
\* after the last "/" is taken
RECURSIVE PathName(_)
PathName(p) ==
    IF p = <<>> THEN <<>>
    ELSE IF p[Len(p)] = "/" THEN PathName(SubSeq(p, 1, Len(p) - 1))
    ELSE IF p[Len(p)] = "." /\ (Len(p) = 1 \/ p[Len(p) - 1] = "/")
    THEN PathName(SubSeq(p, 1, Len(p) - 1))
    ELSE SubSeq(p, LastIndexOf(p, "/") + 1, Len(p))

\* PurePath.suffix: from the last "." of the name, unless the name starts
\* or ends with that dot
PathSuffix(p) ==
    LET name == PathName(p)
        i == LastIndexOf(name, ".")
    IN  IF 1 < i /\ i < Len(name) THEN SubSeq(name, i, Len(name)) ELSE <<>>

----------------------------------------------------------------------------
(* Format sets *)

EMBROIDERY_FORMATS ==
    { <<".","d","s","t">>, <<".","p","e","s">>, <<".","e","x","p">>,
      <<".","j","e","f">>, <<".","v","p","3">>, <<".","x","x","x">>,
      <<".","u","0","1">> }

SUPPORTED_FORMATS ==
    { <<".","a","i">>, <<".","e","p","s">>, <<".","p","d","f">>,
      <<".","s","v","g">>, <<".","c","d","r">>, <<".","x","c","f">> }

\* EmbroideryConverter.is_embroidery_file
is_embroidery_file(filename) ==
    Lower(PathSuffix(filename)) \in EMBROIDERY_FORMATS

\* PreviewGenerator.is_supported
is_supported(filename) ==
    LET ext == Lower(PathSuffix(filename))
    IN  ext \in SUPPORTED_FORMATS \/ is_embroidery_file(filename)

----------------------------------------------------------------------------
(* EmbroideryConverter.convert_to_png *)

\* Python's a & b on non-negative integers
RECURSIVE BitAnd(_, _)
BitAnd(a, b) ==
    IF a = 0 \/ b = 0 THEN 0
    ELSE (a % 2) * (b % 2) + 2 * BitAnd(a \div 2, b \div 2)

\* pyembroidery's command codes (pyembroidery.EmbConstant): an enumeration in
\* the low byte of a stitch's third element, not a set of independent bits
STITCH == 0
JUMP == 1
TRIM == 2
END == 4
COLOR_CHANGE == 5

\* width and height defaults of convert_to_png, and its margin
CanvasWidth == 1200
CanvasHeight == 800
margin == 50

Min2(a, b) == IF a <= b THEN a ELSE b
Max2(a, b) == IF a >= b THEN a ELSE b

SetMin(S) == CHOOSE m \in S : \A x \in S : m <= x
SetMax(S) == CHOOSE m \in S : \A x \in S : m >= x

\* pattern.bounds(): (min_x, min_y, max_x, max_y) over all stitches
Bounds(stitches) ==
    LET xs == { stitches[i][1] : i \in 1..Len(stitches) }
        ys == { stitches[i][2] : i \in 1..Len(stitches) }
    IN  <<SetMin(xs), SetMin(ys), SetMax(xs), SetMax(ys)>>

\* a degenerate-bounds test that forgets the height
ZeroDimensionsWidthOnly(pattern_width, pattern_height) == pattern_width = 0

\* the guard in front of the scale computation
ZeroDimensions(pattern_width, pattern_height) ==
    pattern_width = 0 \/ pattern_height = 0

(* Python floats.  The arithmetic of convert_to_png is done in IEEE-754     *)
(* binary64: every operation gives the double nearest to the exact result,  *)
(* ties to the even mantissa.  No value here is large or small enough to    *)
(* overflow or to be subnormal.                                             *)

\* A natural number of any size is the sequence of its digits in base 2^15,
\* the lowest first and the highest not zero; <<>> is 0.
Base == 2^15

RECURSIVE NatOf(_)
NatOf(n) == IF n = 0 THEN <<>> ELSE <<n % Base>> \o NatOf(n \div Base)

RECURSIVE NatNorm(_)
NatNorm(a) ==
    IF a # <<>> /\ a[Len(a)] = 0 THEN NatNorm(SubSeq(a, 1, Len(a) - 1)) ELSE a

\* a + b + c for a carry c
RECURSIVE NatAddCarry(_, _, _)
NatAddCarry(a, b, c) ==
    IF a = <<>> /\ b = <<>> THEN (IF c = 0 THEN <<>> ELSE <<c>>)
    ELSE LET t == (IF a = <<>> THEN 0 ELSE a[1]) + (IF b = <<>> THEN 0 ELSE b[1]) + c
         IN  <<t % Base>> \o NatAddCarry(IF a = <<>> THEN <<>> ELSE Tail(a),
                                         IF b = <<>> THEN <<>> ELSE Tail(b), t \div Base)

\* a - b for a >= b
RECURSIVE NatSubBorrow(_, _, _)
NatSubBorrow(a, b, c) ==
    IF a = <<>> THEN <<>>
    ELSE LET t == a[1] - (IF b = <<>> THEN 0 ELSE b[1]) - c
         IN  <<IF t < 0 THEN t + Base ELSE t>>
               \o NatSubBorrow(Tail(a), IF b = <<>> THEN <<>> ELSE Tail(b),
                               IF t < 0 THEN 1 ELSE 0)

NatSub(a, b) == NatNorm(NatSubBorrow(a, b, 0))

\* a < b
NatLess(a, b) ==
    \/ Len(a) < Len(b)
    \/ /\ Len(a) = Len(b)
       /\ \E i \in 1..Len(a) :
            a[i] < b[i] /\ \A j \in (i + 1)..Len(a) : a[j] = b[j]

\* a * k + c for one digit k and a carry c
RECURSIVE NatMulDigit(_, _, _)
NatMulDigit(a, k, c) ==
    IF a = <<>> THEN (IF c = 0 THEN <<>> ELSE <<c>>)
    ELSE LET t == a[1] * k + c
         IN  <<t % Base>> \o NatMulDigit(Tail(a), k, t \div Base)

RECURSIVE NatMul(_, _)
NatMul(a, b) ==
    IF a = <<>> \/ b = <<>> THEN <<>>
    ELSE NatAddCarry(NatMulDigit(a, b[1], 0),
                     IF Len(b) = 1 THEN <<>> ELSE <<0>> \o NatMul(a, Tail(b)), 0)

\* <<a \div d, a % d>> for 0 < d <= 2^16
RECURSIVE NatDivRem(_, _)
NatDivRem(a, d) ==
    IF a = <<>> THEN << <<>>, 0 >>
    ELSE LET hi == NatDivRem(Tail(a), d)
             t == hi[2] * Base + a[1]
         IN  << <<t \div d>> \o hi[1], t % d >>

\* a * 2^s
NatShl(a, s) ==
    IF a = <<>> THEN <<>>
    ELSE [i \in 1..(s \div 15) |-> 0] \o NatMulDigit(a, 2^(s % 15), 0)

\* a \div 2^s
NatShr(a, s) ==
    IF s \div 15 >= Len(a) THEN <<>>
    ELSE NatNorm(NatDivRem(SubSeq(a, (s \div 15) + 1, Len(a)), 2^(s % 15))[1])

RECURSIVE BitsOf(_)
BitsOf(n) == IF n = 0 THEN 0 ELSE 1 + BitsOf(n \div 2)

\* int.bit_length()
NatBits(a) == IF a = <<>> THEN 0 ELSE 15 * (Len(a) - 1) + BitsOf(a[Len(a)])

\* A double is <<s, m, e>> and stands for s * m * 2^e: s is 1 or -1, m is 0
\* (then s = 1 and e = 0) or a natural number of exactly 53 bits.
FloatZero == <<1, <<>>, 0>>

\* the double nearest to s * (m + t) * 2^e, where t is 0, or some fraction
\* strictly between 0 and 1 when sticky; ties go to the even mantissa
RoundToDouble(s, m, e, sticky) ==
    LET bits == NatBits(m)
    IN  IF m = <<>> THEN FloatZero
        ELSE IF bits <= 53 THEN <<s, NatShl(m, 53 - bits), e - (53 - bits)>>
        ELSE LET r == bits - 53
                 q == NatShr(m, r)
                 rest == NatSub(m, NatShl(q, r))
                 half == NatShl(<<1>>, r - 1)
                 up == \/ NatLess(half, rest)
                       \/ rest = half /\ (sticky \/ q[1] % 2 = 1)
                 q1 == IF up THEN NatAddCarry(q, <<>>, 1) ELSE q
             IN  IF NatBits(q1) > 53 THEN <<s, NatShr(q1, 1), e + r + 1>>
                 ELSE <<s, q1, e + r>>

\* float(n) for an int n
FloatOfInt(n) ==
    RoundToDouble(IF n < 0 THEN -1 ELSE 1, NatOf(IF n < 0 THEN -n ELSE n), 0, FALSE)

\* a * b
FloatMul(a, b) == RoundToDouble(a[1] * b[1], NatMul(a[2], b[2]), a[3] + b[3], FALSE)

\* a + b
FloatAdd(a, b) ==
    IF a[2] = <<>> THEN b
    ELSE IF b[2] = <<>> THEN a
    ELSE LET e == IF a[3] <= b[3] THEN a[3] ELSE b[3]
             ma == NatShl(a[2], a[3] - e)
             mb == NatShl(b[2], b[3] - e)
         IN  IF a[1] = b[1] THEN RoundToDouble(a[1], NatAddCarry(ma, mb, 0), e, FALSE)
             ELSE IF ma = mb THEN FloatZero
             ELSE IF NatLess(ma, mb) THEN RoundToDouble(b[1], NatSub(mb, ma), e, FALSE)
             ELSE RoundToDouble(a[1], NatSub(ma, mb), e, FALSE)

\* a - b
FloatSub(a, b) == IF b[2] = <<>> THEN a ELSE FloatAdd(a, <<-b[1], b[2], b[3]>>)

\* a / 2
FloatHalf(a) == IF a[2] = <<>> THEN a ELSE <<a[1], a[2], a[3] - 1>>

\* a < b
FloatLess(a, b) == FloatSub(a, b)[1] = -1

\* a scale that takes the larger of the two quotients
FloatMax(a, b) == IF FloatLess(a, b) THEN b ELSE a

\* min(a, b): the first argument unless the second is smaller
FloatMin(a, b) == IF FloatLess(b, a) THEN b ELSE a

\* a / b for ints a >= 0 and 0 <= b <= 2^16 (true division).  Python raises
\* ZeroDivisionError for b = 0; otherwise the quotient is taken to 80 binary
\* places and rounded once.
Divide(a, b) ==
    IF b = 0 THEN <<"ZeroDivisionError">>
    ELSE LET qr == NatDivRem(NatShl(NatOf(a), 80), b)
         IN  RoundToDouble(1, NatNorm(qr[1]), -80, qr[2] # 0)

\* the division returned a float
IsFloat(q) == Len(q) = 3

\* the lines draw.line() is called for, as pairs <<i-1, i>> of stitch indexes:
\* prev_x/prev_y always hold the previous stitch's screen position, or None
RECURSIVE DrawStitches(_, _, _, _)
DrawStitches(stitches, i, prev, acc) ==
    IF i > Len(stitches) THEN acc
    ELSE LET flags == stitches[i][3]
             lifted == BitAnd(flags, TRIM) # 0 \/ BitAnd(flags, COLOR_CHANGE) # 0
             prev1 == IF lifted THEN 0 ELSE prev
             acc1 == IF prev1 # 0 /\ BitAnd(flags, JUMP) = 0
                     THEN Append(acc, <<prev1, i>>) ELSE acc
         IN  DrawStitches(stitches, i + 1, i, acc1)

\* sum(1 for s in pattern.stitches if len(s) > 2 and (s[2] & COLOR_CHANGE))
RECURSIVE ThreadChanges(_, _)
ThreadChanges(stitches, i) ==
    IF i > Len(stitches) THEN 0
    ELSE (IF BitAnd(stitches[i][3], COLOR_CHANGE) # 0 THEN 1 ELSE 0)
         + ThreadChanges(stitches, i + 1)

\* round(n / d, 2) for ints n >= 0 and d > 0, in hundredths: the float that
\* round() returns is the double nearest to that many hundredths.  n / d is
\* never halfway between two hundredths for the divisors used (10 and 300).
RoundHundredths(n, d) == (200 * n + d) \div (2 * d)

\* offset_x, offset_y: margin + (usable - extent * scale) / 2, where usable is
\* width - 2 * margin or height - 2 * margin
Offset(usable, extent, scale) ==
    FloatAdd(FloatOfInt(margin),
             FloatHalf(FloatSub(FloatOfInt(usable),
                                FloatMul(FloatOfInt(extent), scale))))

\* screen_x, screen_y of a stitch: offset + (coordinate - minimum) * scale
ScreenCoord(v, lo, offset, scale) ==
    FloatAdd(offset, FloatMul(FloatOfInt(v - lo), scale))

\* EmbroideryConverter.convert_to_png(input_file, output_file): in `p`,
\* available is self.available, readable is whether pyembroidery.read
\* returns a pattern, bounded whether pattern.bounds() gives four numbers,
\* stitches is pattern.stitches, saved whether img.save returns.  The text
\* of the exception in "Conversion error: ..." is kept only for the division.
convert_to_png(p) ==
    IF ~p.available THEN [ok |-> FALSE, msg |-> "pyembroidery not installed"]
    ELSE IF ~p.readable THEN [ok |-> FALSE, msg |-> "Conversion error"]
    ELSE IF ~p.bounded THEN [ok |-> FALSE, msg |-> "Could not determine pattern bounds"]
    ELSE
      LET b == Bounds(p.stitches)
          pattern_width == b[3] - b[1]
          pattern_height == b[4] - b[2]
      IN  IF ZeroDimensions(pattern_width, pattern_height)
          THEN [ok |-> FALSE, msg |-> "Pattern has zero dimensions"]
          ELSE
            LET scale_x == Divide(CanvasWidth - 2 * margin, pattern_width)
                scale_y == Divide(CanvasHeight - 2 * margin, pattern_height)
            IN  IF ~IsFloat(scale_x) \/ ~IsFloat(scale_y)
                THEN [ok |-> FALSE, msg |-> "Conversion error: division by zero"]
                ELSE IF ~p.saved THEN [ok |-> FALSE, msg |-> "Conversion error"]
                ELSE
                  LET scale == FloatMin(scale_x, scale_y)
                      offset_x == Offset(CanvasWidth - 2 * margin, pattern_width, scale)
                      offset_y == Offset(CanvasHeight - 2 * margin, pattern_height, scale)
                  IN  [ ok |-> TRUE,
                        scale |-> scale,
                        screen |-> [ i \in 1..Len(p.stitches) |->
                            << ScreenCoord(p.stitches[i][1], b[1], offset_x, scale),
                               ScreenCoord(p.stitches[i][2], b[2], offset_y, scale) >> ],
                        lines |-> DrawStitches(p.stitches, 1, 0, <<>>),
                        info |-> [ stitch_count |-> Len(p.stitches),
                                   thread_changes |-> ThreadChanges(p.stitches, 1),
                                   width_mm |-> RoundHundredths(pattern_width, 10),
                                   height_mm |-> RoundHundredths(pattern_height, 10) ] ]

----------------------------------------------------------------------------
(* PreviewGenerator.extract_vector_colors                                  *)
(*                                                                         *)
(* The decoded text of a file is a sequence of colour declarations, each   *)
(* the operands one of the regular expressions captures.  A numeric token  *)
(* ([\d.]+) is <<v>>, v its value in hundredths, or <<>> when float()      *)
(* rejects it ("1.2.3").  A ColorSet is a record of five sequences.        *)

\* characters in code-point order: enough to compare the strings built here
CharOrder == <<" ", "(", ")", "-", "0","1","2","3","4","5","6","7","8","9">>
             \o UpperLetters \o LowerLetters

CharCode(c) == CHOOSE i \in 1..Len(CharOrder) : CharOrder[i] = c

\* Python's < on strings
RECURSIVE StrLess(_, _)
StrLess(a, b) ==
    IF a = <<>> THEN b # <<>>
    ELSE IF b = <<>> THEN FALSE
    ELSE IF a[1] # b[1] THEN CharCode(a[1]) < CharCode(b[1])
    ELSE StrLess(Tail(a), Tail(b))

\* Python's < on tuples of numbers
RECURSIVE TupleLess(_, _)
TupleLess(a, b) ==
    IF a = <<>> THEN b # <<>>
    ELSE IF b = <<>> THEN FALSE
    ELSE IF a[1] # b[1] THEN a[1] < b[1]
    ELSE TupleLess(Tail(a), Tail(b))

\* a sort key that leaves the tuple in its own order
CmykKeyNatural(x) == x

\* the sort key of the CMYK list: (x[3], x[0], x[1], x[2])
CmykKey(x) == <<x[4], x[1], x[2], x[3]>>

CmykLess(a, b) == TupleLess(CmykKey(a), CmykKey(b))

IntGreater(a, b) == a > b

\* sorted(S) under a strict total order
Sorted(S, Less(_, _)) ==
    LET rank == [ x \in S |-> Cardinality({ y \in S : Less(y, x) }) ]
    IN  [ i \in 1..Cardinality(S) |-> CHOOSE x \in S : rank[x] = i - 1 ]

\* a slice that keeps one element too many
PrefixOffByOne(s, n) == SubSeq(s, 1, Min2(n + 1, Len(s)))

\* s[:n]
Prefix(s, n) == SubSeq(s, 1, Min2(n, Len(s)))

Range(s) == { s[i] : i \in 1..Len(s) }

\* t in s, for strings
Contains(s, t) ==
    \E i \in 1..(Len(s) - Len(t) + 1) : SubSeq(s, i, i + Len(t) - 1) = t

\* str.strip() of blanks
RECURSIVE Strip(_)
Strip(s) ==
    IF s # <<>> /\ s[1] = " " THEN Strip(Tail(s))
    ELSE IF s # <<>> /\ s[Len(s)] = " " THEN Strip(SubSeq(s, 1, Len(s) - 1))
    ELSE s

PANTONE == <<"P","A","N","T","O","N","E">>

\* f"PANTONE {number} {variant}" with variant = match.group(2).upper(); the
\* group ([A-Z]{1,3}) takes at most three letters
PantoneName(number, variant) ==
    PANTONE \o <<" ">> \o number \o <<" ">> \o Upper(Prefix(variant, 3))

\* the forms of Pantone reference each of the three pantone_patterns matches
PantonePatternForms ==
    << {"plain", "paren", "comment", "separation"},
       {"paren", "separation"},
       {"comment"} >>

\* whether pattern p matches the reference d: it must be written in a form
\* of the pattern, and the second pattern ends with the closing parenthesis,
\* which has to follow the (at most three) letters it takes for the variant
PatternMatches(d, p) ==
    /\ d.form \in PantonePatternForms[p]
    /\ p = 2 => Len(d.variant) <= 3

\* the names one pattern finds in the text
PantonePatternNames(text, p) ==
    { PantoneName(text[i].number, text[i].variant) :
        i \in { j \in 1..Len(text) : /\ text[j].kind = "pantone"
                                     /\ PatternMatches(text[j], p) } }

\* _get_used_spot_colors_ghostscript: the names in gs's inkcov output, none
\* unless gs ran and returned 0
get_used_spot_colors_ghostscript(gs) ==
    IF gs.outcome = "ok"
    THEN { PantoneName(gs.mentions[i].number, gs.mentions[i].variant) :
             i \in 1..Len(gs.mentions) }
    ELSE {}

\* int(x * 100), int(x * 255), int(x) for the float x = v / 100, v <= 200 or
\* v a whole number.  For the listed v the double product x * 100 falls just
\* below the exact product, so that int() yields one less.
IntTimes100(v) == IF v \in {29, 57, 58, 113, 114, 115, 116} THEN v - 1 ELSE v
IntTimes255(v) == (v * 255) \div 100
IntOf(v) == v \div 100

\* lines 419-429: the whole tuple is scaled when its first component <= 1.0
NormalizeCmyk(t) ==
    IF t[1] <= 100
    THEN <<IntTimes100(t[1]), IntTimes100(t[2]), IntTimes100(t[3]), IntTimes100(t[4])>>
    ELSE <<IntOf(t[1]), IntOf(t[2]), IntOf(t[3]), IntOf(t[4])>>

\* lines 457-461
NormalizeGray(v) == IF v <= 100 THEN IntTimes100(v) ELSE IntOf(v)

\* lines 482-490
NormalizeRgb(t) ==
    IF t[1] <= 100
    THEN <<IntTimes255(t[1]), IntTimes255(t[2]), IntTimes255(t[3])>>
    ELSE <<IntOf(t[1]), IntOf(t[2]), IntOf(t[3])>>

\* the declarations of one kind, in file order
OfKind(text, kind) == { i \in 1..Len(text) : text[i].kind = kind }

\* float() raises ValueError on some matched token
SomeTokenMalformed(text) ==
    \E i \in OfKind(text, "cmyk") \cup OfKind(text, "gray") \cup OfKind(text, "rgb") :
        \E j \in 1..Len(text[i].vals) : text[i].vals[j] = <<>>

Values(d) == [j \in 1..Len(d.vals) |-> d.vals[j][1]]

\* the sequences that hold every element of S once
RECURSIVE PermsOf(_)
PermsOf(S) ==
    IF S = {} THEN { <<>> }
    ELSE UNION { { <<x>> \o p : p \in PermsOf(S \ {x}) } : x \in S }

\* the iteration orders of a Python set of n strings: the order follows the
\* strings' hashes, which change from run to run, so every permutation of
\* the n elements can come out
SetOrders(n) == PermsOf(1..n)

\* list(set(names)): `order` is the permutation the iteration applies to the
\* elements, given here in sorted order
SetToList(S, order) ==
    LET base == Sorted(S, StrLess)
    IN  [i \in 1..Len(base) |-> base[order[i]]]

VectorColorSuffixes ==
    { <<".","a","i">>, <<".","e","p","s">>, <<".","p","d","f">>, <<".","s","v","g">> }

\* a Pantone list that merges the names from gs with those of the text
PantoneListMerged(gs_pantones, text) ==
    Sorted(gs_pantones \cup UNION { PantonePatternNames(text, p) : p \in 1..3 }, StrLess)

\* line 381 / line 400: the Pantone list
PantoneList(gs_pantones, text) ==
    IF gs_pantones # {}
    THEN Sorted(gs_pantones, StrLess)
    ELSE Sorted(UNION { PantonePatternNames(text, p) : p \in 1..3 }, StrLess)

\* line 436
CmykList(text) ==
    Prefix(Sorted({ NormalizeCmyk(Values(text[i])) : i \in OfKind(text, "cmyk") },
                  CmykLess), 15)

\* lines 445-465
GrayList(text) ==
    Prefix(Sorted((IF OfKind(text, "white_swatch") # {} THEN {100} ELSE {})
                    \cup { NormalizeGray(Values(text[i])[1]) : i \in OfKind(text, "gray") },
                  IntGreater), 10)

\* line 495
RgbList(text) ==
    Prefix(Sorted({ NormalizeRgb(Values(text[i])) : i \in OfKind(text, "rgb") },
                  TupleLess), 15)

\* lines 499-506: the set of stripped separation names that are no Pantone
SpotNames(text) ==
    { Strip(text[i].name) :
        i \in { j \in OfKind(text, "separation") :
                  ~Contains(Upper(Strip(text[j].name)), PANTONE) } }

\* line 508
SpotOtherList(text, order) == Prefix(SetToList(SpotNames(text), order), 5)

\* an emptiness test that never reports absence
NothingFoundNever(colors_found) == FALSE

\* line 511: every list is empty
NothingFound(colors_found) ==
    /\ colors_found.pantone = <<>> /\ colors_found.cmyk = <<>>
    /\ colors_found.rgb = <<>> /\ colors_found.grayscale = <<>>
    /\ colors_found.spot_other = <<>>

\* extract_vector_colors(file_path): f.path is file_path, f.readable whether
\* open() and read() succeed, f.text the decoded content, f.gs what the gs
\* subprocess does, f.order the iteration order of the set of spot names.
\* <<>> is None.
extract_vector_colors(f) ==
    IF Lower(PathSuffix(f.path)) \notin VectorColorSuffixes THEN <<>>
    ELSE IF ~f.readable THEN <<>>
    ELSE IF SomeTokenMalformed(f.text) THEN <<>>
    ELSE
      LET colors_found ==
            [ pantone |-> PantoneList(get_used_spot_colors_ghostscript(f.gs), f.text),
              cmyk |-> CmykList(f.text),
              rgb |-> RgbList(f.text),
              grayscale |-> GrayList(f.text),
              spot_other |-> SpotOtherList(f.text, f.order) ]
      IN  IF NothingFound(colors_found)
          THEN <<>>
          ELSE <<colors_found>>

----------------------------------------------------------------------------
(* Post-processing: the resize step of generate_preview, add_background    *)
(* and add_watermark.  An image is [width, height, sum], sum being the sum *)
(* of its pixels after convert('L').                                       *)

DEFAULT_DPI == 300
PREVIEW_MAX_WIDTH == 1200
PREVIEW_MAX_HEIGHT == 1200

\* int(n * scale) for scale = 1200 / n.  For the listed sides (all there are
\* up to 4000) the double product n * (1200 / n) falls just below 1200, so
\* that int() yields 1199.
IntScaledSelf(n) ==
    IF n \in {2191, 2218, 2248, 2303, 2311, 2328, 2342, 2373, 2374} THEN 1199
    ELSE (n * 1200) \div n

\* a resize that looks at the width only
ResizedWidthOnly(w, h) ==
    IF w <= PREVIEW_MAX_WIDTH THEN <<w, h>>
    ELSE <<IntScaledSelf(w), (h * PREVIEW_MAX_WIDTH) \div w>>

\* lines 721-728: the size after the resize step, scale being
\* min(1200 / width, 1200 / height, 1.0); int() truncates.  For the shorter
\* side the double product equals the exact quotient's floor on every size
\* used here (Images, RenderedSizes).
Resized(w, h) ==
    IF w <= PREVIEW_MAX_WIDTH /\ h <= PREVIEW_MAX_HEIGHT THEN <<w, h>>
    ELSE IF PREVIEW_MAX_WIDTH * h <= PREVIEW_MAX_HEIGHT * w
    THEN <<IntScaledSelf(w), IF h = w THEN IntScaledSelf(h) ELSE (h * PREVIEW_MAX_WIDTH) \div w>>
    ELSE <<(w * PREVIEW_MAX_HEIGHT) \div h, IntScaledSelf(h)>>

\* detect_brightness: sum(pixels) / len(pixels), as the fraction <<sum, len>>
detect_brightness(image) == <<image.sum, image.width * image.height>>

\* a threshold test that takes 200 itself for bright
IsBrightOrEqual(brightness) == brightness[1] >= 200 * brightness[2]

\* line 614: brightness > 200
IsBright(brightness) == brightness[1] > 200 * brightness[2]

\* add_background(img, bg_type): the background the image is pasted on
\* ("none" when the image is only converted to RGBA) and the image's size
add_background(image, bg_type) ==
    LET chosen == IF bg_type = "auto"
                  THEN (IF IsBright(detect_brightness(image)) THEN "dark" ELSE "light")
                  ELSE bg_type
    IN  [ size |-> <<image.width, image.height>>,
          background |-> IF chosen = "transparent" THEN "none"
                         ELSE IF chosen = "dark" THEN "dark"
                         ELSE "light" ]

\* add_watermark(img) of app_with_embroidery.py: the text stamped, with the
\* font size, padding and margin it is placed with
add_watermark(image) ==
    LET font_size == Max2(8, Min2((image.width * 12) \div 1000, 16))
    IN  [ text |-> IF image.width < 200 \/ image.height < 200 THEN "AC" ELSE "ArtCheck",
          font_size |-> font_size,
          padding |-> Max2(2, font_size \div 4),
          margin |-> Max2(3, image.width \div 100) ]

\* add_watermark(img) of app_streamlit.py
add_watermark_streamlit(image) ==
    [ text |-> "ArtCheck Preview", font_size |-> 16, padding |-> 5, margin |-> 10 ]

----------------------------------------------------------------------------
(* Function harnesses: the argument is drawn in the initial state, the     *)
(* call is one step.                                                       *)

\* the request variables while no request is running
NoRequest ==
    /\ pc = "idle"
    /\ fname = <<>>
    /\ path = <<>>
    /\ env = [has_inkscape |-> FALSE, has_imagemagick |-> FALSE,
              emb_available |-> FALSE, gs_installed |-> FALSE,
              app |-> "app_with_embroidery"]
    /\ log = <<>>
    /\ files = [f \in {"upload", "temp_output", "pdf_output", "final_output"} |-> "absent"]
    /\ success = FALSE
    /\ vector_colors = <<>>
    /\ emb = <<>>
    /\ img = <<>>
    /\ result = <<>>
    /\ raised = ""

\* --- is_supported / is_embroidery_file ---

\* the spellings of a suffix: as written in the format sets, in upper case,
\* and with its first letter in upper case only
SuffixSpellings ==
    LET base == SUPPORTED_FORMATS \cup EMBROIDERY_FORMATS
                  \cup { <<".","i","n","d","d">>, <<".","p","n","g">>, <<".","s","v">>, <<>> }
        Capitalized(s) == [i \in 1..Len(s) |-> IF i = 2 THEN UpperChar(s[i]) ELSE s[i]]
    IN  base \cup { Upper(s) : s \in base } \cup { Capitalized(s) : s \in base }

\* the filename arguments: a stem, a suffix, and what may follow the suffix
\* in the string handed over (nothing, a trailing separator, a "." component,
\* a dot, a ".." component, another component)
FileNames ==
    LET Stems == { <<"a">>, <<"a", ".", "b">>, <<>>, <<"d", "/", "a">>, <<"/">>,
                   <<".", "/", "a">>, <<"d", ".", "s", "v", "g", "/", "a">> }
        Tails == { <<>>, <<"/">>, <<"/", ".">>, <<"/", ".", "/">>, <<"/", "/">>, <<".">>,
                   <<"/", ".", ".">>, <<"/", "b">> }
    IN  { stem \o suffix \o tail :
            stem \in Stems, suffix \in SuffixSpellings, tail \in Tails }

InitSupported ==
    /\ NoRequest
    /\ arg \in FileNames
    /\ ret = <<>>

CallIsSupported ==
    /\ ret = <<>>
    /\ ret' = <<[fn |-> "is_supported", val |-> is_supported(arg)]>>
    /\ UNCHANGED <<arg, pvars>>

CallIsEmbroideryFile ==
    /\ ret = <<>>
    /\ ret' = <<[fn |-> "is_embroidery_file", val |-> is_embroidery_file(arg)]>>
    /\ UNCHANGED <<arg, pvars>>

NextSupported == CallIsSupported \/ CallIsEmbroideryFile

SpecSupported == InitSupported /\ [][NextSupported]_vars

\* --- convert_to_png ---

MaxStitches == 3

\* stitches at the corners of a 1000 x 500 box, with every command
StitchSeqs ==
    UNION { [1..n -> {0, 1000} \X {0, 500} \X {STITCH, JUMP, TRIM, END, COLOR_CHANGE}] :
              n \in 1..MaxStitches }

\* outlines of three plain stitches: bounding boxes wider than, as wide as
\* and narrower than the usable canvas, in both directions
ShapePatterns == [1..3 -> {0, 1100, 2200} \X {0, 700, 1400} \X {STITCH}]

\* outlines whose scale is not a binary fraction, so that the products and
\* sums of convert_to_png are rounded: 1 x 274, 3 x 7, 1 x 7, 3 x 274 units
OddPatterns == [1..2 -> {0, 1, 3} \X {0, 7, 274} \X {STITCH}]

\* the arguments and the environment of convert_to_png: every pattern with
\* pyembroidery installed, the file readable, the bounds known and img.save
\* succeeding, and one pattern with each of these failing
EmbInputs ==
    LET EmbInput(s) == [available |-> TRUE, readable |-> TRUE, bounded |-> TRUE,
                        stitches |-> s, saved |-> TRUE]
        SamplePattern == << <<0, 0, STITCH>>, <<1000, 500, STITCH>> >>
    IN  { EmbInput(s) : s \in StitchSeqs \cup ShapePatterns \cup OddPatterns }
        \cup { [EmbInput(SamplePattern) EXCEPT !.available = FALSE],
               [EmbInput(SamplePattern) EXCEPT !.readable = FALSE],
               [EmbInput(SamplePattern) EXCEPT !.bounded = FALSE],
               [EmbInput(SamplePattern) EXCEPT !.saved = FALSE] }

InitEmbroidery ==
    /\ NoRequest
    /\ arg \in EmbInputs
    /\ ret = <<>>

CallConvertToPng ==
    /\ ret = <<>>
    /\ ret' = <<convert_to_png(arg)>>
    /\ UNCHANGED <<arg, pvars>>

NextEmbroidery == CallConvertToPng

SpecEmbroidery == InitEmbroidery /\ [][NextEmbroidery]_vars

\* --- extract_vector_colors ---

MaxDecls == 16

\* str(n) for n >= 0
RECURSIVE Digits(_)
Digits(n) ==
    LET DigitChars == <<"0","1","2","3","4","5","6","7","8","9">>
    IN  IF n < 10 THEN <<DigitChars[n + 1]>>
        ELSE Digits(n \div 10) \o <<DigitChars[(n % 10) + 1]>>

DeclKinds == {"pantone", "cmyk", "gray", "rgb", "separation"}

\* the i-th generated declaration of a kind; different i give different colours
GenDecl(kind, i) ==
    CASE kind = "pantone" ->
           [kind |-> "pantone",
            form |-> <<"plain", "paren", "comment", "separation">>[(i % 4) + 1],
            number |-> Digits(100 + i),
            variant |-> IF i % 2 = 0 THEN <<"C">> ELSE <<"u">>]
      [] kind = "cmyk" ->
           [kind |-> "cmyk",
            vals |-> << <<200 + 100 * i>>, <<(i % 3) * 1000>>, <<0>>,
                        <<((20 - i) % 4) * 2500>> >>]
      [] kind = "gray" -> [kind |-> "gray", vals |-> << <<200 + 100 * i>> >>]
      [] kind = "rgb" ->
           [kind |-> "rgb",
            vals |-> << <<200 + 100 * i>>, <<((i * 5) % 7) * 100>>, <<25500>> >>]
      [] kind = "separation" ->
           [kind |-> "separation", name |-> <<"S","p","o","t"," ">> \o Digits(i)]

GenDecls(kind, n) == [i \in 1..n |-> GenDecl(kind, i)]

\* a text with cnt[kind] distinct declarations of each kind, each written
\* `copies` times
GenText(cnt, copies) ==
    LET once == GenDecls("separation", cnt["separation"]) \o GenDecls("rgb", cnt["rgb"])
                \o GenDecls("gray", cnt["gray"]) \o GenDecls("cmyk", cnt["cmyk"])
                \o GenDecls("pantone", cnt["pantone"])
    IN  IF copies = 2 THEN once \o once ELSE once

DeclCounts == {0, 2, MaxDecls}

\* separation colours are counted apart: the list keeps 5 of them in any of
\* the set's orders
MaxSpots == 6

\* texts with MaxSpots separation colours: alone, written once or twice, and
\* along with MaxDecls declarations of every other kind, all written twice
SpotTexts ==
    { GenText([k \in DeclKinds |-> IF k = "separation" THEN MaxSpots ELSE 0], copies) :
        copies \in {1, 2} }
    \cup { GenText([k \in DeclKinds |-> IF k = "separation" THEN MaxSpots ELSE MaxDecls], 2) }

\* texts with a declaration that is not generated by count
SpecialTexts ==
    { << [kind |-> "white_swatch"] >>,
      << [kind |-> "cmyk", vals |-> << <<50>>, <<20>>, <<80>>, <<0>> >>],
         [kind |-> "cmyk", vals |-> << <<5000>>, <<2000>>, <<8000>>, <<0>> >>],
         [kind |-> "gray", vals |-> << <<100>> >>],
         [kind |-> "white_swatch"] >>,
      << [kind |-> "pantone", form |-> "plain", number |-> Digits(293), variant |-> <<"U">>],
         [kind |-> "rgb", vals |-> << <<100>>, <<>>, <<0>> >>] >>,
      << [kind |-> "separation", name |-> <<" ","G","o","l","d"," ">>],
         [kind |-> "separation", name |-> <<"G","o","l","d">>],
         [kind |-> "separation", name |-> <<"p","a","n","t","o","n","e"," ","1">>] >>,
      << [kind |-> "separation", name |-> <<"P","A","N","T","O","N","E"," ","x">>] >>,
      \* one Pantone reference in every encoding and in both letter cases
      << [kind |-> "pantone", form |-> "plain", number |-> Digits(293), variant |-> <<"U">>],
         [kind |-> "pantone", form |-> "paren", number |-> Digits(293), variant |-> <<"U">>],
         [kind |-> "pantone", form |-> "comment", number |-> Digits(293), variant |-> <<"U">>],
         [kind |-> "pantone", form |-> "plain", number |-> Digits(293), variant |-> <<"u">>],
         [kind |-> "pantone", form |-> "separation", number |-> Digits(293), variant |-> <<"U">>],
         [kind |-> "pantone", form |-> "plain", number |-> Digits(1235), variant |-> <<"c">>] >>,
      \* a variant of more than three letters, in parentheses and plain
      << [kind |-> "pantone", form |-> "paren", number |-> Digits(293),
          variant |-> <<"C","V","C","X">>],
         [kind |-> "pantone", form |-> "plain", number |-> Digits(300),
          variant |-> <<"t","p","x","y">>] >>,
      \* operands in 0-100 whose first component is 0 or 1
      << [kind |-> "cmyk", vals |-> << <<0>>, <<5000>>, <<2000>>, <<8000>> >>] >>,
      << [kind |-> "cmyk", vals |-> << <<100>>, <<5000>>, <<5000>>, <<5000>> >>] >>,
      << [kind |-> "rgb", vals |-> << <<100>>, <<20000>>, <<20000>> >>] >>,
      << [kind |-> "rgb", vals |-> << <<0>>, <<12800>>, <<25500>> >>] >>,
      \* fractions whose product with 100 falls short in double arithmetic
      << [kind |-> "cmyk", vals |-> << <<29>>, <<0>>, <<0>>, <<57>> >>],
         [kind |-> "gray", vals |-> << <<29>> >>] >>,
      \* operands above the nominal range
      << [kind |-> "cmyk", vals |-> << <<30000>>, <<0>>, <<0>>, <<0>> >>] >>,
      << [kind |-> "rgb", vals |-> << <<30000>>, <<0>>, <<0>> >>] >>,
      << [kind |-> "gray", vals |-> << <<15000>> >>] >>,
      \* in-range operands of every kind
      << [kind |-> "cmyk", vals |-> << <<100>>, <<100>>, <<0>>, <<50>> >>],
         [kind |-> "cmyk", vals |-> << <<10000>>, <<0>>, <<2500>>, <<10000>> >>],
         [kind |-> "rgb", vals |-> << <<50>>, <<50>>, <<50>> >>],
         [kind |-> "rgb", vals |-> << <<25500>>, <<0>>, <<12800>> >>],
         [kind |-> "gray", vals |-> << <<50>> >>],
         [kind |-> "gray", vals |-> << <<10000>> >>] >> }

\* the generated texts (any count of each kind, at most 2 separation
\* colours, written once or twice), the spot texts and the special texts
ColorTexts ==
    { GenText(cnt, copies) :
        cnt \in { c \in [DeclKinds -> DeclCounts] : c["separation"] \in {0, 2} },
        copies \in {1, 2} }
    \cup SpotTexts \cup SpecialTexts

GsNone == [outcome |-> "notfound", mentions |-> <<>>]

GsResults ==
    { GsNone,
      [outcome |-> "fail", mentions |-> <<>>],
      [outcome |-> "fail", mentions |-> << [number |-> Digits(293), variant |-> <<"U">>] >>],
      [outcome |-> "timeout", mentions |-> <<>>],
      [outcome |-> "ok", mentions |-> <<>>],
      [outcome |-> "ok", mentions |-> << [number |-> Digits(293), variant |-> <<"u">>],
                                        [number |-> Digits(293), variant |-> <<"U">>],
                                        [number |-> Digits(1235), variant |-> <<"C">>] >>] }

\* the files scanned, before the order of the set of spot names is chosen;
\* UniformText(n) has n declarations of every kind but separation, of which
\* there are at most 2
ColorFiles ==
    LET EpsPath == <<"/","t","/","x",".","e","p","s">>
        UniformText(n) ==
            GenText([k \in DeclKinds |-> IF k = "separation" THEN Min2(n, 2) ELSE n], 1)
    IN  { [path |-> EpsPath, readable |-> TRUE, text |-> t, gs |-> GsNone] :
            t \in ColorTexts }
        \cup { [path |-> EpsPath, readable |-> TRUE, text |-> t, gs |-> g] :
                 t \in SpecialTexts \cup { UniformText(n) : n \in DeclCounts },
                 g \in GsResults }
        \cup { [path |-> q, readable |-> r, text |-> UniformText(2), gs |-> GsNone] :
                 q \in { <<"/","t","/","x">> \o x :
                           x \in { <<".","c","d","r">>, <<".","x","c","f">>,
                                   <<".","S","V","G">>, <<".","p","d","f">> } },
                 r \in BOOLEAN }

\* the input is a file and an order of its set of spot names
InitColors ==
    /\ NoRequest
    /\ \E f \in ColorFiles :
         \E o \in SetOrders(Cardinality(SpotNames(f.text))) :
           arg = [path |-> f.path, readable |-> f.readable, text |-> f.text,
                  gs |-> f.gs, order |-> o]
    /\ ret = <<>>

\* ret holds the returned value: <<>> for None, <<ColorSet>> otherwise
CallExtractVectorColors ==
    /\ ret = <<>>
    /\ ret' = <<extract_vector_colors(arg)>>
    /\ UNCHANGED <<arg, pvars>>

NextColors == CallExtractVectorColors

SpecColors == InitColors /\ [][NextColors]_vars

\* --- resize, add_background, add_watermark ---

\* images of several sizes and mean gray levels, the sum one pixel step
\* below, on and above the mean
Images ==
    LET Widths == {1, 150, 199, 200, 800, 1200, 1201, 2191, 2400, 3000}
        Heights == {1, 150, 199, 200, 600, 1200, 1201, 2191, 2400}
        GrayLevels == {0, 100, 199, 200, 201, 210, 255}
    IN  { [width |-> w, height |-> h, sum |-> g * w * h + d] :
            w \in Widths, h \in Heights, g \in GrayLevels, d \in {-1, 0, 1} }
        \ { [width |-> w, height |-> h, sum |-> g * w * h + d] :
              w \in Widths, h \in Heights, g \in {0, 255}, d \in {-1, 1} }

PostInputs ==
    { [image |-> i, bg_type |-> b] :
        i \in Images, b \in {"auto", "light", "dark", "transparent", "checker"} }

InitPost ==
    /\ NoRequest
    /\ arg \in PostInputs
    /\ ret = <<>>

CallResize ==
    /\ ret = <<>>
    /\ arg.bg_type = "auto"
    /\ ret' = <<[fn |-> "resize", val |-> Resized(arg.image.width, arg.image.height)]>>
    /\ UNCHANGED <<arg, pvars>>

CallAddBackground ==
    /\ ret = <<>>
    /\ ret' = <<[fn |-> "add_background", val |-> add_background(arg.image, arg.bg_type)]>>
    /\ UNCHANGED <<arg, pvars>>

CallAddWatermark ==
    /\ ret = <<>>
    /\ arg.bg_type = "auto"
    /\ ret' = <<[fn |-> "add_watermark", val |-> add_watermark(arg.image)]>>
    /\ UNCHANGED <<arg, pvars>>

CallAddWatermarkStreamlit ==
    /\ ret = <<>>
    /\ arg.bg_type = "auto"
    /\ ret' = <<[fn |-> "add_watermark_streamlit", val |-> add_watermark_streamlit(arg.image)]>>
    /\ UNCHANGED <<arg, pvars>>

NextPost ==
    CallResize \/ CallAddBackground \/ CallAddWatermark \/ CallAddWatermarkStreamlit

SpecPost == InitPost /\ [][NextPost]_vars

----------------------------------------------------------------------------
(* One request: the upload handler (lines 1017-1063, 1396-1430) around     *)
(* PreviewGenerator.generate_preview (lines 675-867).                      *)

TempFiles == {"upload", "temp_output", "pdf_output", "final_output"}

\* the two programs of the repository: src/app_with_embroidery.py and its
\* predecessor src/app_streamlit.py (vector files only, no colour
\* extraction, no companion PDF)

\* the host and the program that serves the request
Envs == [has_inkscape : BOOLEAN, has_imagemagick : BOOLEAN,
         emb_available : BOOLEAN, gs_installed : BOOLEAN,
         app : {"app_with_embroidery", "app_streamlit"}]

WithEmbroidery == env.app = "app_with_embroidery"

\* the `type` list of st.file_uploader
UploaderTypes ==
    { <<"a","i">>, <<"e","p","s">>, <<"p","d","f">>, <<"s","v","g">>,
      <<"c","d","r">>, <<"x","c","f">>, <<"i","n","d","d">>, <<"d","s","t">>,
      <<"p","e","s">>, <<"e","x","p">>, <<"j","e","f">>, <<"v","p","3">>,
      <<"x","x","x">>, <<"u","0","1">> }

\* the uploader hands over a file only when the extension of its name, in
\* lower case, is one of the listed types
Admitted(name, types) ==
    \E t \in types : Lower(PathSuffix(name)) = <<".">> \o t

\* names of files a user may pick
PickedNames ==
    { <<"a">> \o x : x \in
        { <<".","s","v","g">>, <<".","S","V","G">>, <<".","e","p","s">>,
          <<".","a","i">>, <<".","p","d","f">>, <<".","c","d","r">>,
          <<".","x","c","f">>, <<".","d","s","t">>, <<".","P","E","S">>,
          <<".","i","n","d","d">>, <<".","I","N","D","D">>, <<".","p","n","g">>,
          <<>> } }

\* uploaded_file.name: the names the uploader hands over
RequestNames == { name \in PickedNames : Admitted(name, UploaderTypes) }

\* app_streamlit.py: the names its uploader hands over, those of the types
\* in the `type` list of its st.file_uploader
RequestNamesStreamlit ==
    { name \in PickedNames :
        Admitted(name, { <<"a","i">>, <<"e","p","s">>, <<"p","d","f">>, <<"s","v","g">> }) }

\* tempfile.NamedTemporaryFile(delete=False, suffix=Path(name).suffix).name
TmpPath(name) == <<"/","t","/","t","m","p","x">> \o PathSuffix(name)

\* the decoded content of the uploaded file, for the colour extractor
RequestTexts ==
    { <<>>,
      << [kind |-> "pantone", form |-> "plain", number |-> Digits(293), variant |-> <<"U">>],
         [kind |-> "gray", vals |-> << <<0>> >>] >>,
      \* "1.2.3 g": float() raises ValueError
      << [kind |-> "gray", vals |-> << <<>> >>] >>,
      \* "1 0 0 rg": an RGB fill, alone and next to a Pantone reference
      << [kind |-> "rgb", vals |-> << <<100>>, <<0>>, <<0>> >>] >>,
      << [kind |-> "pantone", form |-> "plain", number |-> Digits(293), variant |-> <<"U">>],
         [kind |-> "rgb", vals |-> << <<20>>, <<40>>, <<60>> >>] >> }

\* pattern.stitches of the uploaded embroidery file
RequestPatterns ==
    { << <<0, 0, STITCH>>, <<1000, 500, STITCH>>, <<1000, 0, COLOR_CHANGE>>,
         <<0, 500, STITCH>> >>,
      << <<0, 0, STITCH>>, <<1000, 0, STITCH>> >> }

\* (width, height) of the raster a backend wrote
RenderedSizes == { <<800, 600>>, <<2400, 1200>>, <<150, 150>>, <<3000, 2>> }

Subprocess == {"ok", "empty", "fail", "timeout"}

Call(who, what, outcome) == [who |-> who, what |-> what, outcome |-> outcome]

Ext(p) == Lower(PathSuffix(p))

IsPostScript(p) == Ext(p) \in { <<".","e","p","s">>, <<".","a","i">> }

Initial ==
    /\ pc = "idle"
    /\ fname = <<>>
    /\ path = <<>>
    /\ env \in Envs
    /\ log = <<>>
    /\ files = [f \in TempFiles |-> "absent"]
    /\ success = FALSE
    /\ vector_colors = <<>>
    /\ emb = <<>>
    /\ img = <<>>
    /\ result = <<>>
    /\ raised = ""
    /\ arg = <<>>
    /\ ret = <<>>

\* a test for InDesign names that does not fold case
IsInDesignCaseSensitive(name) == EndsWith(name, <<".","i","n","d","d">>)

\* line 1019: uploaded_file.name.lower().endswith('.indd')
IsInDesign(name) == EndsWith(Lower(name), <<".","i","n","d","d">>)

\* lines 1010-1031: a file of a listed type is chosen; an InDesign name stops
\* the script
Upload ==
    /\ pc = "idle"
    /\ WithEmbroidery
    /\ \E name \in RequestNames :
         /\ fname' = name
         /\ pc' = IF IsInDesign(name) THEN "stopped" ELSE "uploaded"
    /\ UNCHANGED <<path, env, log, files, success, vector_colors, emb, img, result,
                   raised, hvars>>

\* app_streamlit.py, lines 255-261: a file of a listed type is chosen
UploadStreamlit ==
    /\ pc = "idle"
    /\ ~WithEmbroidery
    /\ \E name \in RequestNamesStreamlit : fname' = name
    /\ pc' = "uploaded"
    /\ UNCHANGED <<path, env, log, files, success, vector_colors, emb, img, result,
                   raised, hvars>>

\* lines 1054-1060 (app_streamlit.py: 284-292): the upload is copied to
\* tmp_path and generate_preview called
ClickGenerate ==
    /\ pc = "uploaded"
    /\ path' = TmpPath(fname)
    /\ \E size \in {"empty", "nonempty"} : files' = [files EXCEPT !["upload"] = size]
    /\ pc' = "generate_preview"
    /\ UNCHANGED <<fname, env, log, success, vector_colors, emb, img, result, raised,
                   hvars>>

\* a dispatch that renders a vector file before looking for its colours
AfterDispatchRenderFirst(p) ==
    IF is_embroidery_file(p) THEN "convert_to_png" ELSE "inkscape"

\* a dispatch that sends every file to the colour extractor
AfterDispatchAlwaysExtract(p) == "extract_vector_colors"

\* lines 679-690: an embroidery file goes to _generate_embroidery_preview,
\* any other file to extract_vector_colors and then to the conversion
AfterDispatch(p) ==
    IF is_embroidery_file(p) THEN "convert_to_png" ELSE "extract_vector_colors"

\* lines 679-687 and 829-830: dispatch, and the temporary files each branch makes
Dispatch ==
    /\ pc = "generate_preview"
    /\ WithEmbroidery
    /\ IF is_embroidery_file(path)
       THEN files' = [files EXCEPT !["temp_output"] = "empty"]
       ELSE files' = [files EXCEPT !["temp_output"] = "empty", !["pdf_output"] = "empty"]
    /\ pc' = AfterDispatch(path)
    /\ UNCHANGED <<fname, path, env, log, success, vector_colors, emb, img, result,
                   raised, hvars>>

\* app_streamlit.py, lines 169-175: generate_preview makes temp_output and
\* goes to the conversion; it knows no embroidery file and extracts no colour
DispatchStreamlit ==
    /\ pc = "generate_preview"
    /\ ~WithEmbroidery
    /\ files' = [files EXCEPT !["temp_output"] = "empty"]
    /\ pc' = "inkscape"
    /\ UNCHANGED <<fname, path, env, log, success, vector_colors, emb, img, result,
                   raised, hvars>>

\* what running gs yields on this host: FileNotFoundError without the binary
GsOutcomes(e) == IF e.gs_installed THEN {"ok", "fail", "timeout"} ELSE {"notfound"}

\* how the call of extract_vector_colors ends: at line 355, at line 371, in
\* the handler at lines 516-518, or at lines 512/514
ExtractOutcome(f) ==
    IF Ext(f.path) \notin VectorColorSuffixes THEN "skipped"
    ELSE IF ~f.readable THEN "unreadable"
    ELSE IF SomeTokenMalformed(f.text) THEN "raised"
    ELSE "scanned"

\* a caller that gives up when the colours could not be extracted
AfterExtractAbortOnFailure(outcome) ==
    IF outcome \in {"unreadable", "raised"} THEN "returned" ELSE "inkscape"

\* lines 690-694: whatever extract_vector_colors returned, the next statement
\* is the conversion
AfterExtract(outcome) == "inkscape"

\* line 690: extract_vector_colors(input_file); gs is run at line 377 once the
\* suffix is eligible and the file was read
ExtractColors ==
    /\ pc = "extract_vector_colors"
    /\ \E text \in RequestTexts, readable \in BOOLEAN, o \in GsOutcomes(env),
          found \in BOOLEAN :
       \E order \in SetOrders(Cardinality(SpotNames(text))) :
         LET gs == [outcome |-> o,
                    mentions |-> IF o = "ok" /\ found
                                 THEN << [number |-> Digits(293), variant |-> <<"U">>] >>
                                 ELSE <<>>]
             f == [path |-> path, readable |-> readable, text |-> text, gs |-> gs,
                   order |-> order]
             scanned == Ext(path) \in VectorColorSuffixes /\ readable
         IN  /\ (~scanned => text = <<>> /\ o = CHOOSE x \in GsOutcomes(env) : TRUE)
             /\ (~scanned \/ o # "ok" => ~found)
             /\ (Ext(path) \notin VectorColorSuffixes => readable)
             /\ vector_colors' = extract_vector_colors(f)
             /\ log' = log \o << Call("extract_vector_colors", "colors", ExtractOutcome(f)) >>
                           \o (IF scanned THEN << Call("gs", "inkcov", o) >> ELSE <<>>)
             /\ pc' = AfterExtract(ExtractOutcome(f))
    /\ UNCHANGED <<fname, path, env, files, success, img, emb, result, raised, hvars>>

\* a return value that takes a timeout for a success
BackendSucceededUnlessExit(o) == o \in {"ok", "timeout"}

\* lines 191-203 and 239-267: a backend's return value is True only when the
\* subprocess exited with 0 and wrote a non-empty file; an exception
\* (subprocess.TimeoutExpired) is caught and gives False
BackendSucceeded(o) == o = "ok"

\* output_file after a run of a conversion command.  A command that exits
\* with 0 leaves a non-empty file ("ok") or an empty one ("empty"); a command
\* that exits with an error or is killed at the timeout leaves what was there
\* before, or the part of its output it had written (partial).
OutputAfter(o, partial, before) ==
    IF o = "ok" \/ (o \in {"fail", "timeout"} /\ partial) THEN "nonempty"
    ELSE IF o = "empty" THEN "empty"
    ELSE before

\* lines 694-695: _convert_with_inkscape
TryInkscape ==
    /\ pc = "inkscape"
    /\ WithEmbroidery
    /\ env.has_inkscape
    /\ \E o \in Subprocess, partial \in BOOLEAN :
         /\ (o \in {"ok", "empty"} => ~partial)
         /\ log' = Append(log, Call("inkscape", "raster", o))
         /\ success' = BackendSucceeded(o)
         /\ files' = [files EXCEPT !["temp_output"] =
                         OutputAfter(o, partial, files["temp_output"])]
         /\ pc' = IF BackendSucceeded(o) THEN "pdf_after_inkscape" ELSE "imagemagick"
    /\ UNCHANGED <<fname, path, env, vector_colors, emb, img, result, raised, hvars>>

\* app_streamlit.py, lines 87 and 106: a backend's return value is
\* returncode == 0 and os.path.exists(output_file); the file exists since
\* generate_preview made it, so an empty output counts as a success
BackendSucceededStreamlit(o) == o \in {"ok", "empty"}

\* app_streamlit.py, lines 176-177: _convert_with_inkscape
TryInkscapeStreamlit ==
    /\ pc = "inkscape"
    /\ ~WithEmbroidery
    /\ env.has_inkscape
    /\ \E o \in Subprocess, partial \in BOOLEAN :
         /\ (o \in {"ok", "empty"} => ~partial)
         /\ log' = Append(log, Call("inkscape", "raster", o))
         /\ success' = BackendSucceededStreamlit(o)
         /\ files' = [files EXCEPT !["temp_output"] =
                         OutputAfter(o, partial, files["temp_output"])]
    /\ pc' = "imagemagick"
    /\ UNCHANGED <<fname, path, env, vector_colors, emb, img, result, raised, hvars>>

\* line 694 (app_streamlit.py: 176) with has_inkscape False
SkipInkscape ==
    /\ pc = "inkscape"
    /\ ~env.has_inkscape
    /\ pc' = "imagemagick"
    /\ UNCHANGED <<fname, path, env, log, files, success, vector_colors, emb, img,
                   result, raised, hvars>>

\* a fallback test that forgets `not success`
NeedsImageMagickAlways(succ, has_imagemagick) == has_imagemagick

\* line 700 (app_streamlit.py: 178)
NeedsImageMagick(succ, has_imagemagick) == ~succ /\ has_imagemagick

\* a second attempt for every format
SecondAttemptAnyFormat(o1, p) == o1 = "fail"

\* lines 239-241: the alternate method is tried after a non-zero exit, for
\* .eps and .ai only
SecondAttempt(o1, p) == o1 = "fail" /\ IsPostScript(p)

\* lines 700-701: _convert_with_imagemagick up to the end of its first run
\* of convert (line 237).  After a non-zero exit for .eps/.ai the function
\* goes on to its second run (line 242) and has returned nothing yet.
TryImageMagick ==
    /\ pc = "imagemagick"
    /\ WithEmbroidery
    /\ NeedsImageMagick(success, env.has_imagemagick)
    /\ \E o \in Subprocess, partial \in BOOLEAN :
         /\ (o \in {"ok", "empty"} => ~partial)
         /\ log' = Append(log, Call("convert", "raster", o))
         /\ files' = [files EXCEPT !["temp_output"] =
                         OutputAfter(o, partial, files["temp_output"])]
         /\ success' = IF SecondAttempt(o, path) THEN success ELSE BackendSucceeded(o)
         /\ pc' = IF SecondAttempt(o, path) THEN "imagemagick_retry"
                  ELSE IF BackendSucceeded(o) THEN "pdf_after_imagemagick" ELSE "check"
    /\ UNCHANGED <<fname, path, env, vector_colors, emb, img, result, raised, hvars>>

\* lines 242-254: the second run of convert, with -flatten; its outcome is
\* the function's
RetryImageMagick ==
    /\ pc = "imagemagick_retry"
    /\ \E o \in Subprocess, partial \in BOOLEAN :
         /\ (o \in {"ok", "empty"} => ~partial)
         /\ log' = Append(log, Call("convert", "raster", o))
         /\ files' = [files EXCEPT !["temp_output"] =
                         OutputAfter(o, partial, files["temp_output"])]
         /\ success' = BackendSucceeded(o)
         /\ pc' = IF BackendSucceeded(o) THEN "pdf_after_imagemagick" ELSE "check"
    /\ UNCHANGED <<fname, path, env, vector_colors, emb, img, result, raised, hvars>>

\* app_streamlit.py, lines 179-180: _convert_with_imagemagick, one run of
\* convert
TryImageMagickStreamlit ==
    /\ pc = "imagemagick"
    /\ ~WithEmbroidery
    /\ NeedsImageMagick(success, env.has_imagemagick)
    /\ \E o \in Subprocess, partial \in BOOLEAN :
         /\ (o \in {"ok", "empty"} => ~partial)
         /\ log' = Append(log, Call("convert", "raster", o))
         /\ success' = BackendSucceededStreamlit(o)
         /\ files' = [files EXCEPT !["temp_output"] =
                         OutputAfter(o, partial, files["temp_output"])]
    /\ pc' = "check"
    /\ UNCHANGED <<fname, path, env, vector_colors, emb, img, result, raised, hvars>>

\* line 700 (app_streamlit.py: 179) not taken
SkipImageMagick ==
    /\ pc = "imagemagick"
    /\ ~NeedsImageMagick(success, env.has_imagemagick)
    /\ pc' = "check"
    /\ UNCHANGED <<fname, path, env, log, files, success, vector_colors, emb, img,
                   result, raised, hvars>>

\* the PDF the conversion command leaves at output_file: a command that exits
\* with 0 ("ok") has written it; one that exits with an error or is killed at
\* the timeout may have written part of it before (partial)
PdfWritten(o, partial) == o = "ok" \/ (o \in {"fail", "timeout"} /\ partial)

\* lines 698/703 and 767-825: _convert_to_pdf(input_file, pdf_output, dpi); its
\* return value is not used.  After the call at line 698 control reaches the
\* test at line 700, after the call at line 703 the test at line 705.
ConvertToPdf ==
    /\ pc \in {"pdf_after_inkscape", "pdf_after_imagemagick"}
    /\ IF Ext(path) = <<".","p","d","f">>
       THEN \* shutil.copy
            /\ files' = [files EXCEPT !["pdf_output"] = files["upload"]]
            /\ log' = log
       ELSE IF IsPostScript(path)
       THEN \E o \in (IF env.gs_installed THEN Subprocess ELSE {"notfound"}),
               partial \in BOOLEAN :
              /\ log' = Append(log, Call("gs", "pdfwrite", o))
              /\ files' = IF PdfWritten(o, partial)
                          THEN [files EXCEPT !["pdf_output"] = "nonempty"]
                          ELSE files
       ELSE IF env.has_inkscape /\ Ext(path) \in { <<".","s","v","g">>, <<".","c","d","r">> }
       THEN \E o \in Subprocess, partial \in BOOLEAN :
              /\ log' = Append(log, Call("inkscape", "pdf", o))
              /\ files' = IF PdfWritten(o, partial)
                          THEN [files EXCEPT !["pdf_output"] = "nonempty"]
                          ELSE files
       ELSE /\ files' = files
            /\ log' = log
    /\ pc' = IF pc = "pdf_after_inkscape" THEN "imagemagick" ELSE "check"
    /\ UNCHANGED <<fname, path, env, success, vector_colors, emb, img, result, raised,
                   hvars>>

\* a render check that lets every request through
RenderFailedNever(succ, f) == FALSE

\* line 705
RenderFailed(succ, f) == ~succ \/ f["temp_output"] = "absent" \/ f["temp_output"] = "empty"

\* lines 705-710
CheckRendered ==
    /\ pc = "check"
    /\ WithEmbroidery
    /\ IF RenderFailed(success, files)
       THEN /\ files' = [files EXCEPT !["temp_output"] = "absent", !["pdf_output"] = "absent"]
            /\ result' = <<>>
            /\ pc' = "returned"
       ELSE /\ files' = files
            /\ result' = result
            /\ pc' = "process"
    /\ UNCHANGED <<fname, path, env, log, success, vector_colors, emb, img, raised, hvars>>

\* calculate_physical_size(width_px, height_px, dpi) with dpi = 300: the
\* inches are rounded to two decimals and kept in hundredths
calculate_physical_size(width_px, height_px) ==
    [ width_inches |-> RoundHundredths(width_px, DEFAULT_DPI),
      height_inches |-> RoundHundredths(height_px, DEFAULT_DPI),
      dpi |-> DEFAULT_DPI ]

\* app_streamlit.py, lines 182-183: without a success generate_preview
\* returns None and leaves temp_output where it is
CheckRenderedStreamlit ==
    /\ pc = "check"
    /\ ~WithEmbroidery
    /\ result' = IF success THEN result ELSE <<>>
    /\ pc' = IF success THEN "process" ELSE "returned"
    /\ UNCHANGED <<fname, path, env, log, files, success, vector_colors, emb, img,
                   raised, hvars>>

\* lines 743-759
VectorResult(size, colors, sampled, f) ==
    LET base == [ image |-> size, path |-> "final_output",
                  width |-> size[1], height |-> size[2],
                  brightness |-> "brightness", size_kb |-> "size_kb",
                  file_type |-> "vector",
                  physical_size |-> calculate_physical_size(size[1], size[2]),
                  vector_colors |-> colors,
                  sampled_colors |-> sampled ]
    IN  IF f["pdf_output"] = "nonempty"
        THEN [ k \in DOMAIN base \cup {"pdf_path", "pdf_size_kb"} |->
                 IF k = "pdf_path" THEN "pdf_output"
                 ELSE IF k = "pdf_size_kb" THEN "pdf_size_kb" ELSE base[k] ]
        ELSE base

\* lines 713-765: post-processing of the rendered image.  `fault` is where an
\* exception is raised: in Image.open, in img.save, or nowhere; resize raises
\* for a size with a zero.  When img.save raises (line 738), final_output is
\* the empty file NamedTemporaryFile made, or holds the part of the PNG that
\* was written (partial).
ProcessImage ==
    /\ pc = "process"
    /\ WithEmbroidery
    /\ \E size \in RenderedSizes, fault \in {"", "open", "save"}, colorgram \in BOOLEAN,
          partial \in BOOLEAN :
         LET new == Resized(size[1], size[2])
             where == IF fault = "open" THEN "open"
                      ELSE IF new[1] = 0 \/ new[2] = 0 THEN "resize" ELSE fault
             sampled == IF vector_colors = <<>> /\ colorgram
                        THEN <<"dominant colours">> ELSE <<>>
         IN  /\ (vector_colors # <<>> \/ fault = "open" => colorgram)
             /\ (where # "save" => ~partial)
             /\ raised' = where
             /\ img' = IF where = "open" THEN <<>>
                       ELSE IF where = "resize" THEN <<size>> ELSE <<new>>
             /\ files' = IF where = "" THEN [files EXCEPT !["final_output"] = "nonempty",
                                                          !["temp_output"] = "absent"]
                         ELSE IF where = "save"
                         THEN [files EXCEPT !["final_output"] =
                                   IF partial THEN "nonempty" ELSE "empty"]
                         ELSE files
             /\ result' = IF where = ""
                          THEN << VectorResult(new, vector_colors, sampled, files) >>
                          ELSE <<>>
    /\ pc' = "returned"
    /\ UNCHANGED <<fname, path, env, log, success, vector_colors, emb, hvars>>

\* app_streamlit.py, lines 213-220
StreamlitResult(size) ==
    [ image |-> size, path |-> "final_output", width |-> size[1], height |-> size[2],
      brightness |-> "brightness", size_kb |-> "size_kb" ]

\* app_streamlit.py, lines 185-224: post-processing of the rendered image.
\* Image.open raises for an empty file; apart from that `fault` is where an
\* exception is raised, as in ProcessImage; img.save (line 206) may have
\* written part of final_output when it raises (partial).
ProcessImageStreamlit ==
    /\ pc = "process"
    /\ ~WithEmbroidery
    /\ \E size \in RenderedSizes, fault \in {"", "open", "save"}, partial \in BOOLEAN :
         LET new == Resized(size[1], size[2])
             where == IF fault = "open" \/ files["temp_output"] # "nonempty" THEN "open"
                      ELSE IF new[1] = 0 \/ new[2] = 0 THEN "resize" ELSE fault
         IN  /\ (files["temp_output"] # "nonempty" =>
                    fault = "open" /\ size = CHOOSE x \in RenderedSizes : TRUE)
             /\ (where # "save" => ~partial)
             /\ raised' = where
             /\ img' = IF where = "open" THEN <<>>
                       ELSE IF where = "resize" THEN <<size>> ELSE <<new>>
             /\ files' = IF where = "" THEN [files EXCEPT !["final_output"] = "nonempty",
                                                          !["temp_output"] = "absent"]
                         ELSE IF where = "save"
                         THEN [files EXCEPT !["final_output"] =
                                   IF partial THEN "nonempty" ELSE "empty"]
                         ELSE files
             /\ result' = IF where = "" THEN << StreamlitResult(new) >> ELSE <<>>
    /\ pc' = "returned"
    /\ UNCHANGED <<fname, path, env, log, success, vector_colors, emb, hvars>>

\* line 832: convert_to_png(input_file, temp_output).  When img.save raises,
\* part of the image may have been written to temp_output (partial).
ConvertEmbroidery ==
    /\ pc = "convert_to_png"
    /\ \E stitches \in RequestPatterns, readable \in BOOLEAN, bounded \in BOOLEAN,
          saved \in BOOLEAN, partial \in BOOLEAN :
         /\ (~env.emb_available =>
               readable /\ stitches = CHOOSE x \in RequestPatterns : TRUE)
         /\ (~readable => stitches = CHOOSE x \in RequestPatterns : TRUE)
         /\ (~(env.emb_available /\ readable) => bounded)
         /\ (~bounded => stitches = CHOOSE x \in RequestPatterns : TRUE)
         /\ (saved => ~partial)
         /\ emb' = << convert_to_png([available |-> env.emb_available,
                                      readable |-> readable, bounded |-> bounded,
                                      stitches |-> stitches, saved |-> saved]) >>
         \* img.save is the only step that fails where it is reached
         /\ (~saved => env.emb_available /\ readable /\ bounded
                          /\ emb'[1].msg = "Conversion error")
         /\ log' = IF env.emb_available
                   THEN Append(log, Call("pyembroidery", "read",
                                         IF readable THEN "ok" ELSE "fail"))
                   ELSE log
         /\ files' = IF emb'[1].ok \/ partial
                     THEN [files EXCEPT !["temp_output"] = "nonempty"] ELSE files
         /\ pc' = IF emb'[1].ok THEN "process_embroidery" ELSE "returned"
    /\ result' = <<>>
    /\ UNCHANGED <<fname, path, env, success, vector_colors, img, raised, hvars>>

\* a result builder that copies the vector branch's keys
EmbroideryResultWithColors(size, info) ==
    [ image |-> size, path |-> "final_output", width |-> size[1], height |-> size[2],
      brightness |-> "brightness", size_kb |-> "size_kb", file_type |-> "embroidery",
      embroidery_info |-> info, vector_colors |-> <<>> ]

\* lines 854-863
EmbroideryResult(size, info) ==
    [ image |-> size, path |-> "final_output", width |-> size[1], height |-> size[2],
      brightness |-> "brightness", size_kb |-> "size_kb", file_type |-> "embroidery",
      embroidery_info |-> info ]

\* lines 838-867: post-processing of the pattern image.  `fault` is where an
\* exception is raised: in Image.open, in img.save (line 849), which may have
\* written part of final_output (partial), or nowhere.
ProcessEmbroidery ==
    /\ pc = "process_embroidery"
    /\ \E fault \in {"", "open", "save"}, partial \in BOOLEAN :
         /\ (fault # "save" => ~partial)
         /\ raised' = fault
         /\ img' = IF fault = "open" THEN <<>> ELSE << <<CanvasWidth, CanvasHeight>> >>
         /\ files' = IF fault = "" THEN [files EXCEPT !["final_output"] = "nonempty",
                                                      !["temp_output"] = "absent"]
                     ELSE IF fault = "save"
                     THEN [files EXCEPT !["final_output"] =
                               IF partial THEN "nonempty" ELSE "empty"]
                     ELSE files
         /\ result' = IF fault = ""
                      THEN << EmbroideryResult(<<CanvasWidth, CanvasHeight>>, emb[1].info) >>
                      ELSE <<>>
    /\ pc' = "returned"
    /\ UNCHANGED <<fname, path, env, log, success, vector_colors, emb, hvars>>

\* lines 1062-1065 and 1430 (app_streamlit.py: 294-298 and 328-329): the
\* upload copy is removed; no result is the failure message
AfterGenerate ==
    /\ pc = "returned"
    /\ files' = [files EXCEPT !["upload"] = "absent"]
    /\ pc' = IF result # <<>> THEN "show" ELSE "failed"
    /\ UNCHANGED <<fname, path, env, log, success, vector_colors, emb, img, result,
                   raised, hvars>>

\* lines 1134, 1228 and 1245: the RGB colours of a result are named with
\* self.get_color_name(r, g, b); the script has no `self`, so showing a result
\* whose vector colours hold an RGB entry raises NameError
ShowRaises(res) ==
    /\ "vector_colors" \in DOMAIN res
    /\ res.vector_colors # <<>>
    /\ res.vector_colors[1].rgb # <<>>

\* lines 1066-1428: the result is shown; unless that raises (the script ends
\* there, pc "crashed"), the PNG is read for its download button, the PDF
\* when the result names one, and the PNG is removed
ShowResult ==
    /\ pc = "show"
    /\ WithEmbroidery
    /\ IF ShowRaises(result[1])
       THEN /\ log' = log
            /\ files' = files
            /\ pc' = "crashed"
       ELSE /\ log' = log \o << Call("download_button", "final_output", files["final_output"]) >>
                          \o (IF "pdf_path" \in DOMAIN result[1] /\ files["pdf_output"] # "absent"
                              THEN << Call("download_button", "pdf_output", files["pdf_output"]) >>
                              ELSE <<>>)
            /\ files' = [files EXCEPT !["final_output"] = "absent"]
            /\ pc' = "done"
    /\ UNCHANGED <<fname, path, env, success, vector_colors, emb, img, result, raised,
                   hvars>>

\* app_streamlit.py, lines 298-327: the result is shown, the PNG is read for
\* its download button and removed
ShowResultStreamlit ==
    /\ pc = "show"
    /\ ~WithEmbroidery
    /\ log' = Append(log, Call("download_button", "final_output", files["final_output"]))
    /\ files' = [files EXCEPT !["final_output"] = "absent"]
    /\ pc' = "done"
    /\ UNCHANGED <<fname, path, env, success, vector_colors, emb, img, result, raised,
                   hvars>>

Next ==
    \/ Upload \/ ClickGenerate \/ Dispatch \/ ExtractColors
    \/ TryInkscape \/ SkipInkscape \/ TryImageMagick \/ RetryImageMagick
    \/ SkipImageMagick
    \/ ConvertToPdf \/ CheckRendered \/ ProcessImage
    \/ ConvertEmbroidery \/ ProcessEmbroidery
    \/ AfterGenerate \/ ShowResult
    \/ UploadStreamlit \/ DispatchStreamlit \/ TryInkscapeStreamlit
    \/ TryImageMagickStreamlit \/ CheckRenderedStreamlit \/ ProcessImageStreamlit
    \/ ShowResultStreamlit

Spec == Initial /\ [][Next]_vars

----------------------------------------------------------------------------
(* Claims *)

\* the string without the trailing separators and "." components that do
\* not belong to the file name
RECURSIVE Trimmed(_)
Trimmed(p) ==
    IF p = <<".">> THEN <<>>
    ELSE IF EndsWith(p, <<"/">>) THEN Trimmed(SubSeq(p, 1, Len(p) - 1))
    ELSE IF EndsWith(p, <<"/", ".">>) THEN Trimmed(SubSeq(p, 1, Len(p) - 1))
    ELSE p

\* the file name proper: what follows the last separator of the trimmed string
FinalComponent(p) ==
    LET t == Trimmed(p)
    IN  SubSeq(t, LastIndexOf(t, "/") + 1, Len(t))

\* the name ends with the extension and has something in front of it
HasExtension(name, ext) ==
    Len(name) > Len(ext) /\ EndsWith(name, ext)

\* the string with every letter from position d on folded by Fold
FoldedFrom(p, d, Fold(_)) ==
    [i \in 1..Len(p) |-> IF d > 0 /\ i >= d THEN Fold(p[i]) ELSE p[i]]

\* C1: is_supported(filename) is true exactly when the file name, taken in
\* lower case, ends with one of the six vector or seven embroidery
\* extensions (and has a stem in front of it), and it gives the same answer
\* when the suffix of the same name is spelled in lower case or in upper
\* case.
C1_IsSupportedIffSuffixInSets ==
    \A r \in { ret[i] : i \in 1..Len(ret) } :
        r.fn = "is_supported" =>
            LET name == FinalComponent(arg)
                folded == [i \in 1..Len(name) |-> LowerChar(name[i])]
                dot == LastIndexOf(Trimmed(arg), ".")
            IN  /\ r.val = (\E ext \in SUPPORTED_FORMATS \cup EMBROIDERY_FORMATS :
                                HasExtension(folded, ext))
                /\ r.val = is_supported(FoldedFrom(arg, dot, LowerChar))
                /\ r.val = is_supported(FoldedFrom(arg, dot, UpperChar))

\* C1 witness: is_supported has accepted a name whose suffix is not spelled
\* in lower case and is followed by a trailing separator.
C1_Witness ==
    /\ ret # <<>>
    /\ ret[1].fn = "is_supported"
    /\ ret[1].val
    /\ EndsWith(arg, <<"/">>)
    /\ \A ext \in SUPPORTED_FORMATS \cup EMBROIDERY_FORMATS :
           ~HasExtension(FinalComponent(arg), ext)

\* C7: convert_to_png on a readable pattern whose bounding box has zero
\* width or zero height fails with "Pattern has zero dimensions", and no
\* call of convert_to_png ends in a division by zero.
C7_DegenerateFailsBeforeScale ==
    \A r \in { ret[i] : i \in 1..Len(ret) } :
        /\ (~r.ok) => r.msg # "Conversion error: division by zero"
        /\ (arg.available /\ arg.readable) =>
              LET b == Bounds(arg.stitches)
              IN  (b[1] = b[3] \/ b[2] = b[4]) =>
                    /\ ~r.ok
                    /\ r.msg = "Pattern has zero dimensions"

\* C7 witness: convert_to_png was called on a pattern of zero height and
\* non-zero width.
C7_Witness ==
    /\ ret # <<>>
    /\ arg.available /\ arg.readable
    /\ Bounds(arg.stitches)[2] = Bounds(arg.stitches)[4]
    /\ Bounds(arg.stitches)[1] # Bounds(arg.stitches)[3]
    /\ ~ret[1].ok

\* C8 (as claimed): stitch_count is the number of stitches and
\* thread_changes is the number of stitches whose command is COLOR_CHANGE;
\* jump and trim stitches do not change either count.
C8_CountsAsClaimed ==
    \A r \in { ret[i] : i \in 1..Len(ret) } :
        r.ok =>
            /\ r.info.stitch_count = Len(arg.stitches)
            /\ r.info.thread_changes =
                 Cardinality({ i \in 1..Len(arg.stitches) :
                                 arg.stitches[i][3] = COLOR_CHANGE })

NoDuplicates(s) == \A i, j \in 1..Len(s) : s[i] = s[j] => i = j

\* the ColorSets returned so far by extract_vector_colors
ReturnedColorSets == { ret[i][1] : i \in { j \in 1..Len(ret) : ret[j] # <<>> } }

\* C10 (as claimed): every returned ColorSet has no duplicate in any list and
\* at most 15 Pantone, 15 CMYK, 15 RGB, 10 Grayscale and 5 SpotOther entries.
C10_CapsAsClaimed ==
    \A cs \in ReturnedColorSets :
        /\ NoDuplicates(cs.pantone) /\ NoDuplicates(cs.cmyk) /\ NoDuplicates(cs.rgb)
        /\ NoDuplicates(cs.grayscale) /\ NoDuplicates(cs.spot_other)
        /\ Len(cs.pantone) <= 15 /\ Len(cs.cmyk) <= 15 /\ Len(cs.rgb) <= 15
        /\ Len(cs.grayscale) <= 10 /\ Len(cs.spot_other) <= 5

\* C10 (amended): every returned ColorSet has no duplicate in any list and at
\* most 15 CMYK, 15 RGB, 10 Grayscale and 5 SpotOther entries; the Pantone
\* list holds every distinct Pantone name found, without a cap.
C10_CapsExceptPantone ==
    \A cs \in ReturnedColorSets :
        /\ NoDuplicates(cs.pantone) /\ NoDuplicates(cs.cmyk) /\ NoDuplicates(cs.rgb)
        /\ NoDuplicates(cs.grayscale) /\ NoDuplicates(cs.spot_other)
        /\ Len(cs.cmyk) <= 15 /\ Len(cs.rgb) <= 15
        /\ Len(cs.grayscale) <= 10 /\ Len(cs.spot_other) <= 5
        /\ Range(cs.pantone) =
             IF get_used_spot_colors_ghostscript(arg.gs) # {}
             THEN get_used_spot_colors_ghostscript(arg.gs)
             ELSE { PantoneName(arg.text[i].number, arg.text[i].variant) :
                      i \in OfKind(arg.text, "pantone") }

\* C10 witness: a ColorSet was returned for a text that declares every kind of
\* colour more often than its cap, each declaration twice.
C10_Witness ==
    /\ ret # <<>> /\ ret[1] # <<>>
    /\ \A k \in DeclKinds \ {"separation"} : Cardinality(OfKind(arg.text, k)) > 2 * 15
    /\ Cardinality(OfKind(arg.text, "separation")) > 2 * 5
    /\ Len(ret[1][1].cmyk) = 15 /\ Len(ret[1][1].rgb) = 15
    /\ Len(ret[1][1].grayscale) = 10 /\ Len(ret[1][1].spot_other) = 5
    /\ Len(ret[1][1].pantone) > 15

\* the calls made so far to a rasterization backend, as positions in the log
RasterCalls == { i \in 1..Len(log) : log[i].what = "raster" }

Terminal == {"done", "failed", "stopped", "crashed"}

\* C2: for an uploaded name whose suffix is in neither format set, the
\* request is stopped with the message for unsupported files: no
\* rasterization backend, no gs, no stitch parser is invoked and no colour
\* scan takes place, and the request does not end in a preview.
C2_UnsupportedInvokesNothing ==
    (fname # <<>> /\ ~is_supported(fname)) =>
        /\ \A i \in 1..Len(log) :
             /\ log[i].who \notin {"inkscape", "convert", "gs", "pyembroidery"}
             /\ log[i].who = "extract_vector_colors" => log[i].outcome = "skipped"
        /\ pc # "done"
        /\ pc = "stopped" /\ path = <<>> /\ result = <<>>

\* C2 witness: a file named with .INDD was uploaded and the request was
\* stopped before generate_preview was called.
C2_Witness ==
    /\ pc = "stopped"
    /\ fname # <<>> /\ ~is_supported(fname)
    /\ PathSuffix(fname) = <<".","I","N","D","D">>
    /\ log = <<>>

\* C3: ImageMagick rasterizes only when Inkscape is unavailable or its attempt
\* before it failed, Inkscape is never invoked after another rasterization,
\* and no rasterization follows one that succeeded.
C3_InkscapeThenImageMagick ==
    \A i \in RasterCalls :
        /\ log[i].who = "convert" =>
             \/ ~env.has_inkscape
             \/ \E j \in RasterCalls :
                  j < i /\ log[j].who = "inkscape" /\ log[j].outcome # "ok"
        /\ log[i].who = "inkscape" => \A j \in RasterCalls : j >= i
        /\ \A j \in RasterCalls : j < i => log[j].outcome # "ok"

\* C3 witness: Inkscape failed and ImageMagick then succeeded.
C3_Witness ==
    \E i, j \in RasterCalls :
        /\ i < j
        /\ log[i].who = "inkscape" /\ log[i].outcome = "fail"
        /\ log[j].who = "convert" /\ log[j].outcome = "ok"

\* C4 (as claimed): every tool that is invoked is available on the host:
\* inkscape, convert, pyembroidery and gs alike.
C4_OnlyAvailableBackendsInvoked ==
    \A i \in 1..Len(log) :
        /\ log[i].who = "inkscape" => env.has_inkscape
        /\ log[i].who = "convert" => env.has_imagemagick
        /\ log[i].who = "pyembroidery" => env.emb_available
        /\ log[i].who = "gs" => env.gs_installed

\* C5: once generate_preview has returned, the result is None if no
\* rasterization succeeded (vector), if convert_to_png failed (embroidery) or
\* if post-processing raised; a result that is not None has the keys image,
\* path, width, height, size_kb and file_type, with the image's own size
\* (the results of app_streamlit.py have no file_type key: the other keys
\* are required of them too).
C5_AllOrNothing ==
    pc \in {"returned", "show", "done", "crashed", "failed"} =>
        /\ (/\ ~is_embroidery_file(path)
            /\ \A i \in RasterCalls : log[i].outcome # "ok") => result = <<>>
        /\ (is_embroidery_file(path) /\ ~emb[1].ok) => result = <<>>
        /\ raised # "" => result = <<>>
        /\ \A r \in Range(result) :
             /\ {"image", "path", "width", "height", "size_kb"} \subseteq DOMAIN r
             /\ WithEmbroidery => "file_type" \in DOMAIN r
             /\ r.image = img[1] /\ r.width = r.image[1] /\ r.height = r.image[2]
             /\ files[r.path] = "nonempty" \/ pc = "done"

\* C5 witness: a rasterization succeeded, post-processing raised while saving
\* the final image, and generate_preview returned None.
C5_Witness ==
    /\ pc = "failed"
    /\ raised = "save"
    /\ \E i \in RasterCalls : log[i].outcome = "ok"
    /\ result = <<>>

\* C6 (as claimed): in a terminal state no temporary file of the request is
\* left.
C6_NoTempFileLeft ==
    pc \in Terminal => \A f \in TempFiles : files[f] = "absent"

\* C9: an embroidery result has embroidery_info with the stitch statistics and
\* no vector_colors key; a vector result has no embroidery_info key; the
\* file_type is the branch generate_preview dispatched to.  The results are
\* those of app_with_embroidery.py; app_streamlit.py has no file_type key.
C9_FileTypeDeterminesFields ==
    \A r \in { x \in Range(result) : WithEmbroidery } :
        /\ r.file_type \in {"embroidery", "vector"}
        /\ r.file_type = "embroidery" <=> is_embroidery_file(path)
        /\ r.file_type = "embroidery" =>
             /\ "embroidery_info" \in DOMAIN r
             /\ {"stitch_count", "thread_changes"} \subseteq DOMAIN r.embroidery_info
             /\ "vector_colors" \notin DOMAIN r
        /\ r.file_type = "vector" => "embroidery_info" \notin DOMAIN r

\* C9 witness: generate_preview returned an embroidery result.
C9_Witness ==
    /\ result # <<>>
    /\ result[1].file_type = "embroidery"
    /\ pc = "done"

\* the colour scan ran: the suffix is eligible and the file was read
Scanned(f) == Lower(PathSuffix(f.path)) \in VectorColorSuffixes /\ f.readable

\* C11: a ColorSet returned by extract_vector_colors has at least one
\* non-empty list, and a scan that finds no Pantone name (from gs or the
\* text), no CMYK, RGB or grayscale operand, no White swatch and no other
\* spot colour returns None.
C11_NeverAllEmpty ==
    /\ \A cs \in ReturnedColorSets :
         \/ cs.pantone # <<>> \/ cs.cmyk # <<>> \/ cs.rgb # <<>>
         \/ cs.grayscale # <<>> \/ cs.spot_other # <<>>
    /\ (/\ ret # <<>>
        /\ Scanned(arg)
        /\ arg.gs.mentions = <<>>
        /\ \A i \in 1..Len(arg.text) :
             /\ arg.text[i].kind = "separation"
             /\ Contains(Upper(arg.text[i].name), PANTONE)) => ret[1] = <<>>

\* C11 witness: a readable .eps file whose only declaration is a separation
\* colour with a Pantone name and no number was scanned, and None returned.
C11_Witness ==
    /\ ret # <<>> /\ ret[1] = <<>>
    /\ Scanned(arg)
    /\ arg.text # <<>>
    /\ \A i \in 1..Len(arg.text) : arg.text[i].kind = "separation"

\* the Pantone references of the text, each as (number, folded variant); the
\* variant of a reference is the at most three letters after its number
PantoneRefs(text) ==
    { << text[i].number,
         [j \in 1..Min2(3, Len(text[i].variant)) |-> UpperChar(text[i].variant[j])] >> :
        i \in OfKind(text, "pantone") }

\* C12: on the textual path (gs reported no name) the Pantone list has one
\* entry per reference, whatever the number of encodings and letter cases it
\* is written in; each entry is "PANTONE <number> <VARIANT>" with the variant
\* in upper case; the list is in ascending string order.
C12_OneCanonicalEntryPerReference ==
    \A cs \in ReturnedColorSets :
        get_used_spot_colors_ghostscript(arg.gs) = {} =>
            /\ Range(cs.pantone) =
                 { PANTONE \o <<" ">> \o r[1] \o <<" ">> \o r[2] : r \in PantoneRefs(arg.text) }
            /\ Len(cs.pantone) = Cardinality(PantoneRefs(arg.text))
            /\ \A i, j \in 1..Len(cs.pantone) :
                 i < j => StrLess(cs.pantone[i], cs.pantone[j])

\* C12 witness: a text with PANTONE 293 U written plainly, in parentheses, in
\* a %%CMYKCustomColor comment and in lower case, and one more reference,
\* gave a list of exactly two names.
C12_Witness ==
    /\ ret # <<>> /\ ret[1] # <<>>
    /\ get_used_spot_colors_ghostscript(arg.gs) = {}
    /\ { arg.text[i].form : i \in OfKind(arg.text, "pantone") }
         = {"plain", "paren", "comment", "separation"}
    /\ \E i, j \in OfKind(arg.text, "pantone") :
         /\ arg.text[i].number = arg.text[j].number
         /\ arg.text[i].variant # arg.text[j].variant
    /\ Len(ret[1][1].pantone) = 2

\* the operands of a declaration are all fractions in 0..1
InUnitRange(d) == \A j \in 1..Len(d.vals) : d.vals[j] # <<>> /\ d.vals[j][1] <= 100

\* the operands are whole numbers in 0..100, not all of them in 0..1
InPercentRange(d) ==
    /\ \A j \in 1..Len(d.vals) :
         d.vals[j] # <<>> /\ d.vals[j][1] <= 10000 /\ d.vals[j][1] % 100 = 0
    /\ \E j \in 1..Len(d.vals) : d.vals[j][1] > 100

\* C13 (as claimed): a CMYK quadruple of fractions in 0..1 is stored with
\* every component multiplied by 100, and a quadruple of whole percentages in
\* 0..100 is stored unchanged.
C13_CmykNormalisedAsClaimed ==
    \A cs \in ReturnedColorSets :
        Cardinality(OfKind(arg.text, "cmyk")) <= 15 =>
            \A i \in OfKind(arg.text, "cmyk") :
                LET d == arg.text[i]
                IN  /\ InUnitRange(d) => Values(d) \in Range(cs.cmyk)
                    /\ InPercentRange(d) =>
                         [j \in 1..4 |-> d.vals[j][1] \div 100] \in Range(cs.cmyk)

\* C14 (as claimed): in every returned ColorSet each CMYK component and each
\* grayscale percentage is in 0..100 and each RGB component in 0..255.
C14_RecordsInRange ==
    \A cs \in ReturnedColorSets :
        /\ \A t \in Range(cs.cmyk) : \A j \in 1..4 : t[j] \in 0..100
        /\ \A t \in Range(cs.rgb) : \A j \in 1..3 : t[j] \in 0..255
        /\ \A g \in Range(cs.grayscale) : g \in 0..100

\* positions of generate_preview after the ImageMagick branch (line 705 on)
PastConversion == {"check", "process", "returned", "show", "done", "crashed", "failed"}

\* the colour extraction of this request ended at line 371 or in the handler
\* at line 516
ExtractionFailed ==
    \E i \in 1..Len(log) :
        /\ log[i].who = "extract_vector_colors"
        /\ log[i].outcome \in {"unreadable", "raised"}

\* C15: when the file cannot be read or the scan raises, vector_colors is
\* None and generate_preview carries on: with a backend on the host a
\* rasterization is attempted, and the request fails only if no rasterization
\* succeeded or post-processing raised.
C15_ExtractionFailureDoesNotAbort ==
    ExtractionFailed =>
        /\ vector_colors = <<>>
        /\ pc \notin {"extract_vector_colors", "convert_to_png", "process_embroidery"}
        /\ (pc \in PastConversion /\ (env.has_inkscape \/ env.has_imagemagick)) =>
              RasterCalls # {}
        /\ (pc \in {"returned", "failed"} /\ result = <<>>) =>
              \/ \A i \in RasterCalls : log[i].outcome # "ok"
              \/ raised # ""

\* C15 witness: the scan raised on a malformed number and the request still
\* ended with a preview, without vector colours.
C15_Witness ==
    /\ pc = "done"
    /\ \E i \in 1..Len(log) :
         log[i].who = "extract_vector_colors" /\ log[i].outcome = "raised"
    /\ result # <<>>
    /\ result[1].vector_colors = <<>>

\* the calls of ImageMagick's convert for the raster, as positions in the log
ConvertCalls == { i \in RasterCalls : log[i].who = "convert" }

\* C19 (as claimed): for an .eps or .ai file, when the first run of convert
\* exits with an error or leaves a zero-byte file, convert is run exactly
\* once more before _convert_with_imagemagick returns.
C19_RetryOnFailOrEmpty ==
    (pc \in PastConversion /\ IsPostScript(path) /\ ConvertCalls # {}) =>
        LET first == CHOOSE i \in ConvertCalls : \A j \in ConvertCalls : i <= j
        IN  log[first].outcome \in {"fail", "empty"} => Cardinality(ConvertCalls) = 2

\* C20: a timeout of Inkscape is followed by an ImageMagick attempt when
\* ImageMagick is on the host; a backend that timed out has not succeeded;
\* and when the last attempt timed out generate_preview returns None.
C20_TimeoutIsFailure ==
    /\ \A i \in RasterCalls :
         (/\ log[i].who = "inkscape" /\ log[i].outcome = "timeout"
          /\ env.has_imagemagick /\ pc \in PastConversion) =>
             \E j \in ConvertCalls : j > i
    /\ \A i \in RasterCalls :
         (log[i].outcome = "timeout" /\ \A j \in RasterCalls : j <= i) =>
             /\ pc \in PastConversion => ~success
             /\ pc \notin {"process", "show", "done", "crashed"}
             /\ pc \in {"returned", "failed"} => result = <<>>

\* C20 witness: Inkscape timed out, ImageMagick was tried and timed out too,
\* and the request ended with the failure message.
C20_Witness ==
    /\ pc = "failed"
    /\ \E i, j \in RasterCalls :
         /\ i < j
         /\ log[i].who = "inkscape" /\ log[i].outcome = "timeout"
         /\ log[j].who = "convert" /\ log[j].outcome = "timeout"

\* the values returned so far by the post-processing function `fn`
Returned(fn) == { ret[i].val : i \in { j \in 1..Len(ret) : ret[j].fn = fn } }

\* C16: an image that fits in 1200x1200 keeps its size; a larger one gets a
\* size with both sides at most 1200 and with the same aspect ratio to within
\* one pixel; the new size is never larger than the old one in either side.
C16_OnlyDownscales ==
    \A new \in Returned("resize") :
        LET w == arg.image.width
            h == arg.image.height
            skew == new[1] * h - new[2] * w
        IN  /\ (w <= 1200 /\ h <= 1200) => new = <<w, h>>
            /\ new[1] <= 1200 /\ new[2] <= 1200
            /\ new[1] <= w /\ new[2] <= h
            /\ skew <= Max2(w, h) /\ -skew <= Max2(w, h)

\* C16 witness: an image taller than 1200 and narrower than 1200 was
\* resized to a height of 1200.
C16_Witness ==
    /\ Returned("resize") # {}
    /\ arg.image.width < 1200 /\ arg.image.height > 1200
    /\ \E new \in Returned("resize") :
         new[2] = 1200 /\ 0 < new[1] /\ new[1] < arg.image.width

\* C17: with bg_type 'auto', add_background takes the dark background when
\* the mean gray level of the image it is given is above 200, the light one
\* when it is 200 or less.
C17_AutoDarkAbove200 ==
    \A r \in Returned("add_background") :
        arg.bg_type = "auto" =>
            /\ r.background \in {"dark", "light"}
            /\ r.background = "dark" <=>
                 arg.image.sum > 200 * arg.image.width * arg.image.height

\* C17 witness: an image whose mean gray level is exactly 200 got the light
\* background in 'auto' mode.
C17_Witness ==
    /\ arg.bg_type = "auto"
    /\ arg.image.sum = 200 * arg.image.width * arg.image.height
    /\ \E r \in Returned("add_background") : r.background = "light"

\* C18 (as claimed): add_watermark, in either program, stamps the short form
\* "AC" exactly when the width or the height is below 200, and a full label
\* otherwise.
C18_ShortFormBelow200 ==
    \A r \in Returned("add_watermark") \cup Returned("add_watermark_streamlit") :
        /\ r.text \in {"AC", "ArtCheck", "ArtCheck Preview"}
        /\ r.text = "AC" <=> (arg.image.width < 200 \/ arg.image.height < 200)

\* the calls of Inkscape for the raster, as positions in the log
InkscapeCalls == { i \in RasterCalls : log[i].who = "inkscape" }

\* C21: in one request Inkscape rasterizes at most once and ImageMagick at
\* most twice, twice only for an .eps or .ai file whose first attempt exited
\* with an error; and from Done or Failed on, or once showing the result has
\* raised, no step calls anything that is a backend.
C21_OnlyTheFallbackRetry ==
    /\ [](/\ Cardinality(InkscapeCalls) <= 1
          /\ Cardinality(ConvertCalls) <= 2
          /\ Cardinality(ConvertCalls) = 2 =>
               /\ Lower(PathSuffix(path)) \in { <<".","e","p","s">>, <<".","a","i">> }
               /\ \E i \in ConvertCalls :
                    /\ \A j \in ConvertCalls : i <= j
                    /\ log[i].outcome = "fail")
    /\ [][(pc \in {"done", "failed", "crashed"}) => (log' = log)]_vars

\* C21 witness: an .eps request ended after one Inkscape attempt and two
\* ImageMagick attempts.
C21_Witness ==
    /\ pc \in {"done", "failed"}
    /\ Cardinality(InkscapeCalls) = 1
    /\ Cardinality(ConvertCalls) = 2

\* the calls of extract_vector_colors, as positions in the log
ExtractCalls == { i \in 1..Len(log) : log[i].who = "extract_vector_colors" }

\* positions of a vector request after line 690
VectorAfterExtract ==
    {"inkscape", "pdf_after_inkscape", "imagemagick", "imagemagick_retry",
     "pdf_after_imagemagick", "check", "process", "returned", "show", "done", "crashed", "failed"}

\* the request is on the vector path of generate_preview (of
\* app_with_embroidery.py: its predecessor extracts no colour)
OnVectorPath ==
    /\ WithEmbroidery
    /\ path # <<>> /\ ~is_embroidery_file(path) /\ pc \in VectorAfterExtract

\* C22 (as claimed): colour extraction takes place only after a rasterization
\* has succeeded, and a vector request whose rendering failed ends without an
\* extraction.
C22_ExtractionAfterRendering ==
    /\ \A i \in ExtractCalls :
         \E j \in RasterCalls : j < i /\ log[j].outcome = "ok"
    /\ (/\ OnVectorPath /\ pc = "failed"
        /\ \A j \in RasterCalls : log[j].outcome # "ok") => ExtractCalls = {}

\* C22 (amended): a vector request goes from dispatch to the colour
\* extraction, then to rendering, then to post-processing, then to Done or
\* Failed: the extraction is the first call of the request, it has taken
\* place once whether or not rendering succeeds, and post-processing, the
\* display of the result and Done are reached only after a rasterization
\* that succeeded.
C22_ExtractionBeforeRendering ==
    OnVectorPath =>
        /\ ExtractCalls = {1}
        /\ \A j \in RasterCalls : j > 1
        /\ pc \in {"process", "show", "done", "crashed"} =>
             \E j \in RasterCalls : log[j].outcome = "ok"
        /\ pc \in {"show", "done", "crashed"} => result # <<>>
        /\ pc = "failed" => result = <<>>

\* C22 witness: a vector request whose file was scanned for colours ended in
\* Failed because every rasterization failed.
C22_Witness ==
    /\ OnVectorPath /\ pc = "failed"
    /\ RasterCalls # {}
    /\ \A j \in RasterCalls : log[j].outcome # "ok"
    /\ \E i \in ExtractCalls : log[i].outcome = "scanned"

\* C23: every call of extract_vector_colors comes before every call of a
\* rasterization backend and before anything is written to the raster file;
\* a request for an embroidery file never calls the extractor nor gs.
C23_ExtractorFirstAndVectorOnly ==
    /\ \A i \in ExtractCalls : \A j \in RasterCalls : i < j
    /\ pc = "inkscape" => (RasterCalls = {} /\ files["temp_output"] = "empty")
    /\ (path # <<>> /\ is_embroidery_file(path)) =>
          \A i \in 1..Len(log) : log[i].who \notin {"extract_vector_colors", "gs"}

\* C23 witness: the extractor scanned the file, a backend then rasterized it
\* and the request ended with a preview.
C23_Witness ==
    /\ pc = "done"
    /\ \E i \in ExtractCalls : \E j \in RasterCalls :
         i < j /\ log[i].outcome = "scanned" /\ log[j].outcome = "ok"

\* the number of times draw.line was called for the segment from stitch
\* i - 1 to stitch i
Segments(lines, i) == Cardinality({ k \in 1..Len(lines) : lines[k] = <<i - 1, i>> })

\* C24 (as claimed): no segment is drawn to a stitch whose command is trim or
\* colour change, none to a jump stitch, and exactly one to every other
\* stitch that follows a stitch on which the pen was not lifted.
C24_PenLiftedAsClaimed ==
    \A r \in { ret[i] : i \in 1..Len(ret) } :
        r.ok =>
            \A i \in 1..Len(arg.stitches) :
                LET cmd == arg.stitches[i][3]
                IN  /\ cmd \in {TRIM, COLOR_CHANGE, JUMP} => Segments(r.lines, i) = 0
                    /\ (/\ cmd \notin {TRIM, COLOR_CHANGE, JUMP}
                        /\ i > 1
                        /\ arg.stitches[i - 1][3] \notin {TRIM, COLOR_CHANGE}) =>
                           Segments(r.lines, i) = 1

\* a <= b on doubles
FloatLeq(a, b) == ~FloatLess(b, a)

\* the doubles a and b add up to the integer n exactly, without rounding
SumIs(a, b, n) ==
    LET e == IF a[3] <= b[3] THEN a[3] ELSE b[3]
    IN  /\ a[1] = 1 /\ b[1] = 1 /\ e <= 0
        /\ NatAddCarry(NatShl(a[2], a[3] - e), NatShl(b[2], b[3] - e), 0)
             = NatShl(NatOf(n), -e)

FloatSetMin(S) == CHOOSE m \in S : \A x \in S : FloatLeq(m, x)
FloatSetMax(S) == CHOOSE m \in S : \A x \in S : FloatLeq(x, m)

\* C29 (as claimed): for a pattern with a bounding box of non-zero width and
\* height, every stitch is drawn at a point with 50 <= x <= 1150 and
\* 50 <= y <= 750, and the free space left of the leftmost stitch equals the
\* free space right of the rightmost, and likewise above and below.
C29_InsideMarginBoxAndCentred ==
    \A r \in { ret[i] : i \in 1..Len(ret) } :
        r.ok =>
            LET n == Len(r.screen)
                xs == { r.screen[i][1] : i \in 1..n }
                ys == { r.screen[i][2] : i \in 1..n }
            IN  /\ \A x \in xs : /\ FloatLeq(FloatOfInt(50), x)
                                  /\ FloatLeq(x, FloatOfInt(1200 - 50))
                /\ \A y \in ys : /\ FloatLeq(FloatOfInt(50), y)
                                  /\ FloatLeq(y, FloatOfInt(800 - 50))
                /\ SumIs(FloatSetMin(xs), FloatSetMax(xs), 1200)
                /\ SumIs(FloatSetMin(ys), FloatSetMax(ys), 800)

\* the doubles a and b, neither negative, add up to the integer n with an
\* error of at most 2^-30
NearSum(a, b, n) ==
    LET e == Min2(Min2(a[3], b[3]), -30)
        total == NatNorm(NatAddCarry(NatShl(a[2], a[3] - e), NatShl(b[2], b[3] - e), 0))
        target == NatShl(NatOf(n), -e)
        distance == IF NatLess(total, target) THEN NatSub(target, total)
                    ELSE NatSub(total, target)
    IN  /\ a[1] = 1 /\ b[1] = 1
        /\ ~NatLess(NatShl(NatOf(1), -30 - e), distance)

\* a <= b, or a exceeds b by at most 2^-30, for an integer bound
LeqUpToRounding(a, n) == FloatLeq(a, FloatOfInt(n)) \/ NearSum(a, FloatZero, n)
GeqUpToRounding(a, n) == FloatLeq(FloatOfInt(n), a) \/ NearSum(a, FloatZero, n)

\* C29: for a pattern with a bounding box of non-zero width and height, every
\* stitch is drawn at a point inside the margin box up to the rounding of the
\* double arithmetic (50 <= x <= 1150 and 50 <= y <= 750, each missed by at
\* most 2^-30), and the free space on opposite sides of the drawing is equal
\* up to that rounding, along both axes.
C29_InsideMarginBoxUpToRounding ==
    \A r \in { ret[i] : i \in 1..Len(ret) } :
        r.ok =>
            LET n == Len(r.screen)
                xs == { r.screen[i][1] : i \in 1..n }
                ys == { r.screen[i][2] : i \in 1..n }
            IN  /\ \A x \in xs : /\ GeqUpToRounding(x, 50)
                                  /\ LeqUpToRounding(x, 1200 - 50)
                /\ \A y \in ys : /\ GeqUpToRounding(y, 50)
                                  /\ LeqUpToRounding(y, 800 - 50)
                /\ NearSum(FloatSetMin(xs), FloatSetMax(xs), 1200)
                /\ NearSum(FloatSetMin(ys), FloatSetMax(ys), 800)

\* C29 witness: a pattern was drawn and the rounding put one of its stitches
\* above the margin box.
C29_Witness ==
    /\ ret # <<>> /\ ret[1].ok
    /\ \E i \in 1..Len(ret[1].screen) :
         FloatLess(ret[1].screen[i][2], FloatOfInt(50))

\* C25 (as claimed): the extraction stages are independent, so the Pantone
\* names found in a scanned file are returned whatever happens in the CMYK,
\* grayscale and RGB stages, an unparseable numeric token included.
C25_StagesIndependent ==
    (/\ ret # <<>>
     /\ Scanned(arg)
     /\ OfKind(arg.text, "pantone") # {})
        => /\ ret[1] # <<>>
           /\ ret[1][1].pantone # <<>>

\* the canonical names of the Pantone colours gs reports as used
GsNames(gs) ==
    IF gs.outcome = "ok"
    THEN { PANTONE \o <<" ">> \o gs.mentions[i].number \o <<" ">>
             \o [j \in 1..Len(gs.mentions[i].variant) |-> UpperChar(gs.mentions[i].variant[j])] :
             i \in 1..Len(gs.mentions) }
    ELSE {}

\* the canonical names of the Pantone references written in the text
TextNames(text) ==
    { PANTONE \o <<" ">> \o r[1] \o <<" ">> \o r[2] : r \in PantoneRefs(text) }

\* C26: when gs reports at least one Pantone name, the Pantone list holds
\* exactly the names gs reported, each once, in ascending order, whatever the
\* text says; when gs reports none, fails, times out or is not installed, the
\* list holds exactly the names matched in the text, each once, in ascending
\* order.
C26_GhostscriptPreferred ==
    \A cs \in ReturnedColorSets :
        /\ Range(cs.pantone) =
             IF GsNames(arg.gs) # {} THEN GsNames(arg.gs) ELSE TextNames(arg.text)
        /\ \A i, j \in 1..Len(cs.pantone) :
             i < j => StrLess(cs.pantone[i], cs.pantone[j])

\* C26 witness: gs reported names, the text holds a Pantone reference gs did
\* not report, and a ColorSet with a Pantone list was returned.
C26_Witness ==
    /\ ret # <<>> /\ ret[1] # <<>>
    /\ GsNames(arg.gs) # {}
    /\ TextNames(arg.text) \ GsNames(arg.gs) # {}
    /\ ret[1][1].pantone # <<>>

\* the distinct CMYK tuples of the text after normalization
CmykFound(text) == { NormalizeCmyk(Values(text[i])) : i \in OfKind(text, "cmyk") }

\* a precedes b in the order (K, C, M, Y)
KFirstLess(a, b) == TupleLess(<<a[4], a[1], a[2], a[3]>>, <<b[4], b[1], b[2], b[3]>>)

\* C27: the CMYK list is in strictly ascending (K, C, M, Y) order, holds only
\* tuples found, has min(15, number of distinct tuples) entries, and every
\* tuple left out comes after every tuple kept: with more than 15 distinct
\* tuples the list is exactly the 15 smallest.
C27_CmykSortedKFirst ==
    \A cs \in ReturnedColorSets :
        /\ \A i, j \in 1..Len(cs.cmyk) : i < j => KFirstLess(cs.cmyk[i], cs.cmyk[j])
        /\ Range(cs.cmyk) \subseteq CmykFound(arg.text)
        /\ Len(cs.cmyk) = Min2(15, Cardinality(CmykFound(arg.text)))
        /\ \A x \in CmykFound(arg.text) \ Range(cs.cmyk) :
             \A i \in 1..Len(cs.cmyk) : KFirstLess(cs.cmyk[i], x)

\* C27 witness: a text with more than 15 distinct CMYK tuples gave a list of
\* 15 that leaves one out and whose K-first order is not the tuple order.
C27_Witness ==
    /\ ret # <<>> /\ ret[1] # <<>>
    /\ Cardinality(CmykFound(arg.text)) > 15
    /\ Len(ret[1][1].cmyk) = 15
    /\ \E i \in 1..14 : TupleLess(ret[1][1].cmyk[i + 1], ret[1][1].cmyk[i])

\* C28 (as claimed): the size the resize step computes has both sides at
\* least 1 pixel, for every image of at least 1 x 1.
C28_ResizeKeepsBothSidesPositive ==
    \A new \in Returned("resize") :
        (arg.image.width >= 1 /\ arg.image.height >= 1) => (new[1] >= 1 /\ new[2] >= 1)

\* the calls of the companion-PDF conversion that reported success
PdfSuccesses ==
    { i \in 1..Len(log) : log[i].what \in {"pdf", "pdfwrite"} /\ log[i].outcome = "ok" }

\* C30 (as claimed): a result carries pdf_path only if the companion-PDF
\* conversion of the request reported success: the copy of a .pdf upload, or
\* a gs or inkscape conversion that exited with 0 and wrote the file.
C30_PdfOnlyAfterReportedSuccess ==
    (result # <<>> /\ "pdf_path" \in DOMAIN result[1])
        => (Ext(path) = <<".","p","d","f">> \/ PdfSuccesses # {})

====
